---- MODULE Spec2Model ----
(***************************************************************************)
(* Model of the FlutterReflect protocol engine.                            *)
(*                                                                         *)
(* Part 1: flutter::VMServiceClient (src/src/flutter/vm_service_client.cpp)*)
(* the client-role correlation engine: connect / disconnect, sendRequest   *)
(* on caller threads, and the websocket handlers that run on the event     *)
(* loop thread (onOpen, onClose, onFail, onMessage, runEventLoop).         *)
(*                                                                         *)
(* Part 2: mcp::Server (src/src/mcp/server.cpp) with its                   *)
(* jsonrpc::MessageHandler (src/src/jsonrpc/handler.cpp) and the message   *)
(* model (src/src/jsonrpc/message.cpp): the server-role dispatch engine.   *)
(*                                                                         *)
(* Part 3: the message model on its own: Request and Response values,      *)
(* their serialization, Request::parse and validateJsonRpc.                *)
(*                                                                         *)
(* Part 4: flutter::InstanceDiscovery                                      *)
(* (src/src/flutter/instance_discovery.cpp): the scan of a port range by   *)
(* concurrent probes.                                                      *)
(***************************************************************************)
EXTENDS Integers, Sequences, FiniteSets, TLC

\* ------------------------------------------------------------------ bounds
\* Request ids that may be allocated in one run (next_request_id_ starts at 1).
MaxCalls == 2

\* Event notifications whose delivery is recorded in one run.
MaxEvents == 2

\* Candidate ports of one discovery scan.
MaxPorts == 5

\* ------------------------------------------------------------------ threads
Callers == {"t1", "t2"}
Ctl == "ctl"
Threads == Callers \cup {Ctl}
Ids == 1..MaxCalls

\* ------------------------------------------------------------------ frames
\* An inbound websocket text frame, by what onMessage can tell apart:
\*   garbage : not JSON (json::parse throws)
\*   strid   : JSON object whose "id" is a string (get<int64_t> throws)
\*   notify  : JSON object without id (or with a null id); body "sinkThrows"
\*             marks an event on which the subscribed callback throws
\*   reply   : JSON object with an integer id; body says which of the
\*             members "result"/"error" it has and whether "error" is an object
\* method is the frame's "method" member: "streamNotify", another name, or
\* "none" when it has no such member.
Bodies == {"result", "error", "badError", "empty"}
Frames ==
    {[kind |-> "garbage", id |-> 0, body |-> "empty", method |-> "none"],
     [kind |-> "strid", id |-> 0, body |-> "result", method |-> "none"],
     [kind |-> "notify", id |-> 0, body |-> "empty", method |-> "other"],
     [kind |-> "notify", id |-> 0, body |-> "empty", method |-> "none"]}
    \cup [kind : {"notify"}, id : {0}, body : {"empty", "sinkThrows"},
          method : {"streamNotify"}]
    \cup [kind : {"reply"}, id : Ids, body : Bodies,
          method : {"none", "streamNotify"}]

VARIABLES
    connected_,         \* std::atomic<bool> connected_
    running_,           \* std::atomic<bool> running_
    next_request_id_,   \* std::atomic<int64_t> next_request_id_
    pending_requests_,  \* keys of the map id -> promise
    promise,            \* shared state of the promise/future pair of each id
    ws_thread_,         \* "none" | "running" | "exited" (exited: joinable, body returned)
    sock,               \* state of the websocket connection_ refers to
    crashed,            \* std::terminate was called
    pc,                 \* position of each thread
    reqid,              \* request_id local of each thread's sendRequest
    inConnect,          \* disconnect() was called from inside connect()
    outcome,            \* what sendRequest returned or threw, per request id
    observe,            \* which history is being recorded in this run
    late,               \* ids of the reply frames that came after their call had ended
    completions,        \* ids whose promise onMessage completed, in order
    badHit,             \* first malformed frame onMessage handled: -1 none yet,
                        \* 0 an unreadable one, i > 0 a wrong-shaped reply to call i
    event_callback_,    \* std::function event_callback_ holds a callback
    nevents,            \* event notifications that arrived so far
    delivered,          \* arrival numbers of the events the callback was given, in order
    discarded,          \* a frame with a non-null id, matching no call, whose
                        \* method is streamNotify was handled
    interleaved         \* 1: a reply resolved a call after an event was delivered,
                        \* 2: and a further event was delivered after that reply

\* The server (mcp::Server) and what it last did.
VARIABLES
    initialized_,       \* std::atomic<bool> Server::initialized_
    server_running_,    \* std::atomic<bool> Server::running_
    ready_,             \* StdioTransport::ready_
    methods_,           \* MessageHandler::methods_ : method name -> handler
    tools_,             \* names of the tools in Server::tools_
    client_info_,       \* Server::client_info_ was assigned
    reply,              \* what the last handleMessage returned: {} for "", else {frame}
    invoked,            \* the handlers the last handleMessage called, in order
    last_op             \* per method name, the last registry call made on it
                        \* ("register", "unregister" or "none") and its handler

server == <<initialized_, server_running_, ready_, methods_, tools_,
            client_info_, reply, invoked, last_op>>

\* The message model (jsonrpc::Request, jsonrpc::Response) used on its own.
\* Each of the three holds at most one value.
VARIABLES
    value,              \* the Request or Response struct that was constructed
    text,               \* the JSON text at hand: serialized from value, or received
    parsed              \* what Request::parse or validateJsonRpc made of text

msgs == <<value, text, parsed>>

\* One call of InstanceDiscovery::discoverInstances.
VARIABLES
    scan,               \* position of the calling thread in discoverInstances
    service,            \* what listens on each candidate port
    probe,              \* per port, the state of the future of its probePort
    port_num,           \* the port whose future the collection loop gets next
    instances,          \* the vector instances: ports, in order
    out_of_order,       \* some probe completed before the probe of a lower port
    found,              \* what one probe, taken alone, finds on its port
    instance            \* what probePort returned for it: outcome is "none"
                        \* before the call, then "nullopt", "terminated" or
                        \* "value", with the fields of the FlutterInstance

disc == <<scan, service, probe, port_num, instances, out_of_order,
          found, instance>>

VARIABLES
    ws_uri_             \* std::string ws_uri_ of the client of Part 1

\* The connection slot of the tools (src/src/tools/connect_tool.cpp).
VARIABLES
    g_vm_client,        \* the shared_ptr: {} when null, else the client it points
                        \* to, as the tools see it between their calls
    made,               \* VMServiceClient objects made for the slot so far
    opened,             \* URIs of the slot's websocket connections that are open
    last_call           \* the last invocation of ensureConnection or of a tool:
                        \* its argument, what the slot held, the client calls it
                        \* made and what it returned

\* A handleRequest that runs while other threads use the registry.
VARIABLES
    request             \* the Request of the handleRequest under way, once it
                        \* has passed hasMethod (handler.cpp L24)

slot == <<ws_uri_, g_vm_client, made, opened, last_call, request>>

\* The two ends of the transport of the server (stdio_transport.cpp).
VARIABLES
    received,           \* the non-empty lines receiveLoop read from stdin, in
                        \* order: of each its id member and whether it parses
    sent                \* the id members of the frames written to stdout, in order

vars == <<connected_, running_, next_request_id_, pending_requests_, promise,
          ws_thread_, sock, crashed, pc, reqid, inConnect, outcome,
          observe, late, completions, badHit, received, sent,
          event_callback_, nevents, delivered, discarded, interleaved,
          initialized_, server_running_, ready_, methods_, tools_,
          client_info_, reply, invoked, last_op,
          value, text, parsed,
          scan, service, probe, port_num, instances, out_of_order,
          found, instance,
          ws_uri_, g_vm_client, made, opened, last_call, request>>

\* the fields of the client object and the connection
client == <<connected_, running_, next_request_id_, pending_requests_, promise,
            ws_thread_, sock, crashed>>
hist == <<observe, late, completions, badHit, received, sent>>
\* the event callback and what is recorded of its invocations
sink == <<event_callback_, nevents, delivered, discarded, interleaved>>

\* ------------------------------------------------------------------ discovery data
\* instance_discovery.cpp L26-29: the port range of the scan.
port_range_start == 1
port_range_end == MaxPorts
Candidates == port_range_start..port_range_end

\* ------------------------------------------------------------------ server data
\* jsonrpc::ErrorCode (message.h L13-21)
ParseError == -32700
InvalidRequest == -32600
MethodNotFound == -32601
InvalidParams == -32602
InternalError == -32603

\* The method names a frame may carry: the four that registerMcpMethods
\* registers and one that nobody registers.
MethodNames == {"initialize", "tools/list", "tools/call", "ping", "foo"}

\* The tools main() may register, and a tool name that is never registered.
ToolNames == {"tap"}

\* What Tool::execute does when tools/call reaches it: it returns a result,
\* or throws an exception with a message, or one whose what() is empty.
ToolOutcomes == {"returns", "throws", "throwsEmpty"}

\* Only a frame for tools/call can reach a tool.
OutcomesOf(f) == IF f.method = "tools/call" THEN ToolOutcomes ELSE {"returns"}

\* The "params" member of a frame, by what the validation and the handlers
\* look at: its JSON type (or "absent"), and for an object its members
\* clientInfo (well-formed or not), protocolVersion (a string or not) and
\* name (a tool name, or not a string).
NoParams == [shape |-> "absent", clientInfo |-> "absent",
             protocolVersion |-> "absent", name |-> "absent"]
EmptyObject == [NoParams EXCEPT !.shape = "object"]
\* The params every method is sent: none, {}, an array, a string; and those
\* with the members the handler of the method reads.
ParamsOf(m) ==
    {NoParams,
     EmptyObject,
     [NoParams EXCEPT !.shape = "array"],
     [NoParams EXCEPT !.shape = "scalar"]}
    \cup (IF m = "initialize"
          THEN {[EmptyObject EXCEPT !.clientInfo = "ok"],
                [EmptyObject EXCEPT !.clientInfo = "ok", !.protocolVersion = "ok"],
                [EmptyObject EXCEPT !.clientInfo = "bad"],
                [EmptyObject EXCEPT !.clientInfo = "ok", !.protocolVersion = "bad"]}
          ELSE IF m = "tools/call"
          THEN {[EmptyObject EXCEPT !.name = "tap"],
                [EmptyObject EXCEPT !.name = "nope"],
                [EmptyObject EXCEPT !.name = "nonstring"]}
          ELSE {})

\* The "id" member of a frame: t is its JSON type ("absent": no such
\* member), v tells values of one type apart.
JsonIds ==
    {[t |-> "absent", v |-> 0], [t |-> "null", v |-> 0],
     [t |-> "int", v |-> 7], [t |-> "string", v |-> 1],
     [t |-> "float", v |-> 0], [t |-> "bool", v |-> 0]}

\* An inbound line of text. json: it is JSON; object: it is a JSON object;
\* jsonrpc, method, params, id: its members; hasResult: it has a "result"
\* or "error" member.
Ping7 ==
    [json |-> TRUE, object |-> TRUE, jsonrpc |-> "2.0", method |-> "ping",
     hasResult |-> FALSE, params |-> NoParams, id |-> [t |-> "int", v |-> 7]]
ServerFrames ==
    UNION {{[Ping7 EXCEPT !.method = m, !.params = p, !.id = i] :
                p \in ParamsOf(m), i \in JsonIds} : m \in MethodNames}
    \cup {[Ping7 EXCEPT !.json = FALSE, !.object = FALSE],
          [Ping7 EXCEPT !.object = FALSE],
          [Ping7 EXCEPT !.jsonrpc = "1.0"],
          [Ping7 EXCEPT !.jsonrpc = "absent"],
          [Ping7 EXCEPT !.method = "absent"],
          [Ping7 EXCEPT !.method = "absent", !.hasResult = TRUE],
          [Ping7 EXCEPT !.method = "nonstring"]}

\* L120-141: the registry after registerMcpMethods.
McpMethods ==
    [m \in MethodNames |->
        CASE m = "initialize" -> "handleInitialize"
          [] m = "tools/list" -> "handleToolsList"
          [] m = "tools/call" -> "handleToolsCall"
          [] m = "ping" -> "handlePing"
          [] OTHER -> "none"]

\* The state after Server::Server (L8-22) on a new StdioTransport.
ServerConstructed ==
    /\ initialized_ = FALSE
    /\ server_running_ = FALSE
    /\ ready_ = TRUE
    /\ methods_ = McpMethods
    /\ tools_ = {}
    /\ client_info_ = FALSE
    /\ reply = {}
    /\ invoked = <<>>
    /\ last_op = [m \in MethodNames |->
                     [op |-> IF McpMethods[m] = "none" THEN "none" ELSE "register",
                      handler |-> McpMethods[m]]]

\* No message was constructed or received yet.
NoMessage ==
    /\ value = {}
    /\ text = {}
    /\ parsed = {}

\* probePort returned no FlutterInstance.
NoInstance(how) == [outcome |-> how, project_name |-> "", device |-> ""]

\* The URIs of three VM Services; the owner of the client of Part 1
\* connects to the first.
OwnerUri == "ws://127.0.0.1:8181/ws"
Uris == {OwnerUri, "ws://127.0.0.1:8182/ws", "ws://127.0.0.1:8183/ws"}

\* No tool and no ensureConnection was invoked yet.
NoCall == [op |-> "none", uri |-> "", held |-> "", calls |-> <<>>, ret |-> FALSE]

\* connect_tool.cpp L12: g_vm_client is null; vm_service_client.h: ws_uri_
\* is default-constructed.
NoSlot ==
    /\ ws_uri_ = ""
    /\ g_vm_client = {}
    /\ made = 0
    /\ opened = {}
    /\ last_call = NoCall
    /\ request = {}

\* discoverInstances was not called yet.
NoScan ==
    /\ scan = "idle"
    /\ service = [p \in Candidates |-> "unknown"]
    /\ probe = [p \in Candidates |-> "none"]
    /\ port_num = port_range_start
    /\ instances = <<>>
    /\ out_of_order = FALSE
    /\ found = {}
    /\ instance = NoInstance("none")

\* The state after the constructor (L7-9, and the member initialisers of the
\* header), with nothing observed yet.
Fields ==
    /\ connected_ = FALSE
    /\ running_ = FALSE
    /\ next_request_id_ = 1
    /\ pending_requests_ = {}
    /\ promise = [i \in Ids |-> "none"]
    /\ ws_thread_ = "none"
    /\ sock = "none"
    /\ crashed = FALSE
    /\ pc = [t \in Threads |-> "idle"]
    /\ reqid = [t \in Threads |-> 0]
    /\ inConnect = FALSE
    /\ outcome = [i \in Ids |-> "none"]
    /\ late = {}
    /\ completions = <<>>
    /\ badHit = -1
    /\ received = <<>>
    /\ sent = <<>>
    /\ nevents = 0
    /\ delivered = <<>>
    /\ discarded = FALSE
    /\ interleaved = 0

\* event_callback_ is default-constructed: empty.
Constructed ==
    /\ Fields /\ event_callback_ = FALSE /\ ServerConstructed
    /\ NoMessage /\ NoScan /\ NoSlot

\* The history variables late, completions, badHit and those of the event
\* callback do not influence the client; each run records one of them (or
\* none), named by observe.
Init == Constructed /\ observe = "none"
InitOrder == Constructed /\ observe = "order"
InitLate == Constructed /\ observe = "late"
InitMalformed == Constructed /\ observe = "malformed"
InitEvents == Constructed /\ observe = "events"
InitWire == Constructed /\ observe = "wire"

\* The owner has subscribed its callback (setEventCallback, L264-267) right
\* after construction, before it connects.
InitClassify ==
    /\ Fields
    /\ event_callback_ = TRUE
    /\ ServerConstructed
    /\ NoMessage
    /\ NoScan
    /\ NoSlot
    /\ observe = "classify"

\* ------------------------------------------------------------------ helpers
\* A promise destroyed before it was satisfied stores broken_promise.
Destroyed(p) == IF p = "unset" THEN "broken" ELSE p

\* Faulty variant of EraseSet: erase() forgotten, the entry stays in the table.
EraseNothing(table, id) == table

\* Faulty variant of EraseSet: the whole table is cleared instead of one entry.
EraseAll(table, id) == {}

\* pending_requests_.erase(id): the entry goes and its promise is destroyed.
EraseSet(table, id) == table \ {id}

ErasePromise(pr, table, id) ==
    IF id \in table THEN [pr EXCEPT ![id] = Destroyed(pr[id])] ELSE pr

\* Where a thread goes when its sendRequest returns or throws.
AfterCall(t) == IF t = Ctl THEN "c_done" ELSE "idle"

\* request_id is a local of sendRequest: a caller thread forgets it on return;
\* connect() keeps its query's id until it has looked at the outcome.
AfterReqid(t, id) == IF t = Ctl THEN id ELSE 0

\* What a thread's sendRequest returned or threw (no id: it threw at L157).
Returned(t) == IF reqid[t] = 0 THEN "NotConnected" ELSE outcome[reqid[t]]

\* ------------------------------------------------------------------ sendRequest
\* Faulty variant of NextId: the counter is read but not advanced.
NextIdStuck(n) == n

\* next_request_id_++ : the value after the post-increment.
NextId(n) == n + 1

\* The threads that may start a sendRequest: a caller that is idle, or
\* connect() at its getMainIsolateId() call.
AtCall(t) == IF t = Ctl THEN pc[t] = "c_query" ELSE pc[t] = "idle"

\* L156-158: not connected, the call throws before it allocates anything.
SendRequestNotConnected(t) ==
    /\ ~crashed
    /\ AtCall(t)
    /\ ~connected_
    /\ reqid' = [reqid EXCEPT ![t] = 0]
    /\ pc' = [pc EXCEPT ![t] = AfterCall(t)]
    /\ UNCHANGED <<client, inConnect, outcome, hist, sink, server, msgs, disc, slot>>

\* L156-164: connected; the id is taken with one atomic fetch-and-add and the
\* promise/future pair is created.
SendRequestAlloc(t) ==
    /\ ~crashed
    /\ AtCall(t)
    /\ connected_
    /\ next_request_id_ <= MaxCalls
    /\ reqid' = [reqid EXCEPT ![t] = next_request_id_]
    /\ next_request_id_' = NextId(next_request_id_)
    /\ promise' = [promise EXCEPT ![next_request_id_] = "unset"]
    /\ pc' = [pc EXCEPT ![t] = "sr_insert"]
    /\ UNCHANGED <<connected_, running_, pending_requests_, ws_thread_, sock,
                   crashed, inConnect, outcome, hist, sink, server, msgs, disc, slot>>

\* L166-169: the promise is moved into the table under requests_mutex_.
SendRequestRegister(t) ==
    /\ ~crashed
    /\ pc[t] = "sr_insert"
    /\ pending_requests_' = pending_requests_ \cup {reqid[t]}
    /\ pc' = [pc EXCEPT ![t] = "sr_send"]
    /\ UNCHANGED <<connected_, running_, next_request_id_, promise, ws_thread_,
                   sock, crashed, reqid, inConnect, outcome, hist, sink, server, msgs, disc, slot>>

\* L181-196: ws_client_.send. It reports an error (or throws) unless the
\* connection is open; then the entry is erased and the call throws.
SendRequestSend(t) ==
    /\ ~crashed
    /\ pc[t] = "sr_send"
    /\ IF sock = "open"
       THEN /\ pc' = [pc EXCEPT ![t] = "sr_wait"]
            /\ UNCHANGED <<pending_requests_, promise, outcome, reqid>>
       ELSE /\ pending_requests_' = EraseSet(pending_requests_, reqid[t])
            /\ promise' = ErasePromise(promise, pending_requests_, reqid[t])
            /\ outcome' = [outcome EXCEPT ![reqid[t]] = "SendFailed"]
            /\ reqid' = [reqid EXCEPT ![t] = AfterReqid(t, reqid[t])]
            /\ pc' = [pc EXCEPT ![t] = AfterCall(t)]
    /\ UNCHANGED <<connected_, running_, next_request_id_, ws_thread_, sock,
                   crashed, inConnect, hist, sink, server, msgs, disc, slot>>

\* What future.get() gives for a satisfied promise.
Got(p) ==
    CASE p = "value" -> "result"
      [] p = "error" -> "error"
      [] p = "closed" -> "ConnectionClosed"
      [] OTHER -> "future_error"

\* L199 + L205: wait_for sees the future ready; get() returns the value or
\* rethrows the stored exception.
SendRequestReady(t) ==
    /\ ~crashed
    /\ pc[t] = "sr_wait"
    /\ promise[reqid[t]] \in {"value", "error", "closed", "broken"}
    /\ outcome' = [outcome EXCEPT ![reqid[t]] = Got(promise[reqid[t]])]
    /\ reqid' = [reqid EXCEPT ![t] = AfterReqid(t, reqid[t])]
    /\ pc' = [pc EXCEPT ![t] = AfterCall(t)]
    /\ UNCHANGED <<client, inConnect, hist, sink, server, msgs, disc, slot>>

\* L199: wait_for returns timeout: the future was not ready at the deadline.
\* The mutex is not held yet.
SendRequestExpire(t) ==
    /\ ~crashed
    /\ pc[t] = "sr_wait"
    /\ promise[reqid[t]] = "unset"
    /\ pc' = [pc EXCEPT ![t] = "sr_expired"]
    /\ UNCHANGED <<client, reqid, inConnect, outcome, hist, sink, server, msgs, disc, slot>>

\* Faulty variant of SendRequestTimeout: the call throws without erasing its entry.
SendRequestTimeoutKeepsEntry(t) ==
    /\ ~crashed
    /\ pc[t] = "sr_expired"
    /\ outcome' = [outcome EXCEPT ![reqid[t]] = "Timeout"]
    /\ reqid' = [reqid EXCEPT ![t] = AfterReqid(t, reqid[t])]
    /\ pc' = [pc EXCEPT ![t] = AfterCall(t)]
    /\ UNCHANGED <<client, inConnect, hist, sink, server, msgs, disc, slot>>

\* L200-202: under the mutex the call erases its own entry and throws.
SendRequestTimeout(t) ==
    /\ ~crashed
    /\ pc[t] = "sr_expired"
    /\ pending_requests_' = EraseSet(pending_requests_, reqid[t])
    /\ promise' = ErasePromise(promise, pending_requests_, reqid[t])
    /\ outcome' = [outcome EXCEPT ![reqid[t]] = "Timeout"]
    /\ reqid' = [reqid EXCEPT ![t] = AfterReqid(t, reqid[t])]
    /\ pc' = [pc EXCEPT ![t] = AfterCall(t)]
    /\ UNCHANGED <<connected_, running_, next_request_id_, ws_thread_, sock,
                   crashed, inConnect, hist, sink, server, msgs, disc, slot>>

\* The steps of a sendRequest that is under way (all but its start).
SendRequestProgress(t) ==
    \/ SendRequestRegister(t)
    \/ SendRequestSend(t)
    \/ SendRequestReady(t)
    \/ SendRequestExpire(t)
    \/ SendRequestTimeout(t)

SendRequest(t) ==
    \/ SendRequestNotConnected(t)
    \/ SendRequestAlloc(t)
    \/ SendRequestRegister(t)
    \/ SendRequestSend(t)
    \/ SendRequestReady(t)
    \/ SendRequestExpire(t)
    \/ SendRequestTimeout(t)

\* ------------------------------------------------------------------ disconnect
\* ws_client_.close (L96-106): starts the closing handshake of an open
\* connection; on any other connection it reports an error and does nothing.
CloseSock(s) == IF s = "open" THEN "closing" ELSE s

\* L87-106, the head of disconnect(): the early return, or the flags are
\* cleared and the close is requested. fromConnect: called at L69 or L81.
DisconnectHead(fromConnect) ==
    IF ~connected_ /\ ~running_
    THEN /\ pc' = [pc EXCEPT ![Ctl] = "idle"]
         /\ inConnect' = FALSE
         /\ UNCHANGED <<connected_, running_, sock>>
    ELSE /\ connected_' = FALSE
         /\ running_' = FALSE
         /\ sock' = CloseSock(sock)
         /\ pc' = [pc EXCEPT ![Ctl] = "d_join"]
         /\ inConnect' = fromConnect

\* The owner of the client (or the destructor, L11-13) calls disconnect().
DisconnectCall ==
    /\ ~crashed
    /\ pc[Ctl] = "idle"
    /\ pc' = [pc EXCEPT ![Ctl] = "d_enter"]
    /\ UNCHANGED <<client, reqid, inConnect, outcome, hist, sink, server, msgs, disc, slot>>

\* L87-106 of that call.
DisconnectBegin ==
    /\ ~crashed
    /\ pc[Ctl] = "d_enter"
    /\ DisconnectHead(FALSE)
    /\ UNCHANGED <<next_request_id_, pending_requests_, promise, ws_thread_,
                   crashed, reqid, outcome, hist, sink, server, msgs, disc, slot>>

\* L108-112: join returns once the event loop thread has finished.
DisconnectJoin ==
    /\ ~crashed
    /\ pc[Ctl] = "d_join"
    /\ ws_thread_ # "running"
    /\ ws_thread_' = "none"
    /\ pc' = [pc EXCEPT ![Ctl] = "d_clear"]
    /\ UNCHANGED <<connected_, running_, next_request_id_, pending_requests_,
                   promise, sock, crashed, reqid, inConnect, outcome, hist, sink, server, msgs, disc, slot>>

\* L117-124: every promise still in the table gets the "Connection closed"
\* exception (set_exception on a satisfied promise throws and is ignored).
FailAll(pr, table) ==
    [i \in Ids |-> IF i \in table /\ pr[i] = "unset" THEN "closed" ELSE pr[i]]

\* Faulty variant of ClearTable: the promises are failed but clear() is forgotten.
KeepTable(table) == table

\* L125
ClearTable(table) == {}

\* L114-130, under requests_mutex_; then disconnect() returns.
DisconnectClear ==
    /\ ~crashed
    /\ pc[Ctl] = "d_clear"
    /\ promise' = FailAll(promise, pending_requests_)
    /\ pending_requests_' = ClearTable(pending_requests_)
    /\ pc' = [pc EXCEPT ![Ctl] = "idle"]
    /\ inConnect' = FALSE
    /\ UNCHANGED <<connected_, running_, next_request_id_, ws_thread_, sock,
                   crashed, reqid, outcome, hist, sink, server, msgs, disc, slot>>

Disconnect ==
    \/ DisconnectCall
    \/ DisconnectBegin
    \/ DisconnectJoin
    \/ DisconnectClear

\* ------------------------------------------------------------------ connect
\* L16-19: already connected, return true.
ConnectAlready ==
    /\ ~crashed
    /\ pc[Ctl] = "idle"
    /\ connected_
    /\ UNCHANGED vars

\* L50-56: ws_uri_ is assigned, get_connection reports an error: return
\* false, nothing started.
ConnectBadUri ==
    /\ ~crashed
    /\ pc[Ctl] = "idle"
    /\ ~connected_
    /\ ws_uri_' = OwnerUri
    /\ UNCHANGED <<client, pc, reqid, inConnect, outcome, hist, sink, server,
                   msgs, disc, g_vm_client, made, opened, last_call, request>>

\* L21-54 throws (init_asio, get_connection, connect), before or after
\* ws_uri_ was assigned (L50): L79-83 call disconnect() and return false.
ConnectThrows ==
    /\ ~crashed
    /\ pc[Ctl] = "idle"
    /\ ~connected_
    /\ DisconnectHead(TRUE)
    /\ ws_uri_' \in {ws_uri_, OwnerUri}
    /\ UNCHANGED <<next_request_id_, pending_requests_, promise, ws_thread_,
                   crashed, reqid, outcome, hist, sink, server, msgs, disc,
                   g_vm_client, made, opened, last_call, request>>

\* L50-58: ws_uri_ is assigned, the connection attempt is queued, running_
\* is set and the event loop thread is started. Assigning ws_thread_ destroys the std::thread it
\* held; destroying a joinable std::thread calls std::terminate.
ConnectStart ==
    /\ ~crashed
    /\ pc[Ctl] = "idle"
    /\ ~connected_
    /\ ws_uri_' = OwnerUri
    /\ running_' = TRUE
    /\ IF ws_thread_ = "none"
       THEN /\ ws_thread_' = "running"
            /\ sock' = "connecting"
            /\ pc' = [pc EXCEPT ![Ctl] = "c_wait"]
            /\ UNCHANGED crashed
       ELSE /\ crashed' = TRUE
            /\ UNCHANGED <<ws_thread_, sock, pc>>
    /\ UNCHANGED <<connected_, next_request_id_, pending_requests_, promise,
                   reqid, inConnect, outcome, hist, sink, server, msgs, disc,
                   g_vm_client, made, opened, last_call, request>>

\* L60-74: the polling loop saw connected_ true, and so does L67: go on to
\* getMainIsolateId().
ConnectOpened ==
    /\ ~crashed
    /\ pc[Ctl] = "c_wait"
    /\ connected_
    /\ pc' = [pc EXCEPT ![Ctl] = "c_query"]
    /\ UNCHANGED <<client, reqid, inConnect, outcome, hist, sink, server, msgs, disc, slot>>

\* L60-71: 5 seconds passed without connected_ becoming true: disconnect()
\* and return false.
ConnectTimeout ==
    /\ ~crashed
    /\ pc[Ctl] = "c_wait"
    /\ ~connected_
    /\ DisconnectHead(TRUE)
    /\ UNCHANGED <<next_request_id_, pending_requests_, promise, ws_thread_,
                   crashed, reqid, outcome, hist, sink, server, msgs, disc, slot>>

\* L74-77: getMainIsolateId() returned an isolate id: connect() returns true.
ConnectOk ==
    /\ ~crashed
    /\ pc[Ctl] = "c_done"
    /\ Returned(Ctl) = "result"
    /\ pc' = [pc EXCEPT ![Ctl] = "idle"]
    /\ reqid' = [reqid EXCEPT ![Ctl] = 0]
    /\ UNCHANGED <<client, inConnect, outcome, hist, sink, server, msgs, disc, slot>>

\* L74 + L79-83: getMainIsolateId() threw (its call failed, or the result
\* holds no isolate): disconnect() and return false.
ConnectQueryFailed ==
    /\ ~crashed
    /\ pc[Ctl] = "c_done"
    /\ DisconnectHead(TRUE)
    /\ reqid' = [reqid EXCEPT ![Ctl] = 0]
    /\ UNCHANGED <<next_request_id_, pending_requests_, promise, ws_thread_,
                   crashed, outcome, hist, sink, server, msgs, disc, slot>>

Connect ==
    \/ ConnectAlready
    \/ ConnectBadUri
    \/ ConnectThrows
    \/ ConnectStart
    \/ ConnectOpened
    \/ ConnectTimeout
    \/ ConnectOk
    \/ ConnectQueryFailed

\* L136-138: getUri.
GetUri == ws_uri_

\* ------------------------------------------------------------------ event loop
\* Faulty variant of OnLoop: the event loop thread stands still while a
\* caller waits for its reply.
OnLoopNoWaiter ==
    ~crashed /\ ws_thread_ = "running" /\ \A t \in Threads : pc[t] # "sr_wait"

\* The handlers run on the event loop thread, one at a time.
OnLoop == ~crashed /\ ws_thread_ = "running"

\* L320-323
OnOpen ==
    /\ OnLoop
    /\ sock = "connecting"
    /\ sock' = "open"
    /\ connected_' = TRUE
    /\ UNCHANGED <<running_, next_request_id_, pending_requests_, promise,
                   ws_thread_, crashed, pc, reqid, inConnect, outcome, hist, sink, server, msgs, disc, slot>>

\* L325-328: the connection closed (the peer closed it, the socket dropped,
\* or the client's own closing handshake finished).
OnClose ==
    /\ OnLoop
    /\ sock \in {"open", "closing"}
    /\ sock' = "closed"
    /\ connected_' = FALSE
    /\ UNCHANGED <<running_, next_request_id_, pending_requests_, promise,
                   ws_thread_, crashed, pc, reqid, inConnect, outcome, hist, sink, server, msgs, disc, slot>>

\* L330-335: the connection attempt failed.
OnFail ==
    /\ OnLoop
    /\ sock = "connecting"
    /\ sock' = "closed"
    /\ connected_' = FALSE
    /\ UNCHANGED <<running_, next_request_id_, pending_requests_, promise,
                   ws_thread_, crashed, pc, reqid, inConnect, outcome, hist, sink, server, msgs, disc, slot>>

\* L269-280: ws_client_.run() returns (or throws) when the connection is
\* gone and no work is left; running_ is cleared and the thread function ends.
RunEventLoopExit ==
    /\ OnLoop
    /\ sock = "closed"
    /\ running_' = FALSE
    /\ ws_thread_' = "exited"
    /\ UNCHANGED <<connected_, next_request_id_, pending_requests_, promise,
                   sock, crashed, pc, reqid, inConnect, outcome, hist, sink, server, msgs, disc, slot>>

\* Faulty variant of Find: the reply is handed to the oldest pending call, whatever
\* id it carries.
FindOldest(table, id) ==
    IF table = {} THEN 0 ELSE CHOOSE i \in table : \A j \in table : i <= j

\* L293: pending_requests_.find(id); 0 stands for end().
Find(table, id) == IF id \in table THEN id ELSE 0

\* L284-290: json::parse throws on text that is not JSON, get<int64_t>
\* throws on a string id.
Unreadable(f) == f.kind \in {"garbage", "strid"}

\* L295-303: what the matched promise is given. An "error" member wins over
\* "result"; without either, json["result"] is null and is set as the value.
Completion(body) == IF body = "error" THEN "error" ELSE "value"

\* L296 throws when "error" is not an object; L298/L302 throw when the
\* promise is already satisfied. Both leave the entry where it is (L304 is
\* skipped) and end in the catch at L315.
SetThrows(f, hit) == f.body = "badError" \/ promise[hit] # "unset"

\* The frames that make a statement of onMessage throw.
Malformed(f, hit) == Unreadable(f) \/ (hit # 0 /\ f.body = "badError")

\* Faulty variant of CatchAll: the exception leaves the handler, run() throws and
\* runEventLoop (L274-278) ends.
CatchNothing(th) == "exited"

\* L315-317: the catch of onMessage; the handler returns to the event loop.
\* The value is the state of the event loop thread after a frame that threw.
CatchAll(th) == th

\* Faulty variant of IsEventNotification: the method is tested whether or not the
\* frame has an id.
AnyStreamNotify(f) == f.method = "streamNotify"

\* L289 + L308: the else branch is reached by a frame without a non-null id;
\* there the method is compared with "streamNotify".
IsEventNotification(f) == f.kind = "notify" /\ f.method = "streamNotify"

\* Faulty variant of Deliver: the newest event is handed over ahead of the others.
DeliverFirst(q, e) == <<e>> \o q

\* L309-312: the callback is called with the event, under callback_mutex_,
\* before onMessage returns.
Deliver(q, e) == Append(q, e)

\* L310: the callback a notification is given to throws.
SinkThrows(f) == IsEventNotification(f) /\ event_callback_ /\ f.body = "sinkThrows"

\* The runs that record the deliveries to the callback.
Recording == observe \in {"events", "classify"}

\* L282-318
OnMessage(f) ==
    /\ OnLoop
    /\ sock \in {"open", "closing"}
    /\ (Recording /\ IsEventNotification(f)) => nevents < MaxEvents
    /\ IF Recording /\ IsEventNotification(f)
       THEN /\ nevents' = nevents + 1
            /\ delivered' = IF event_callback_
                             THEN Deliver(delivered, nevents + 1)
                             ELSE delivered
       ELSE UNCHANGED <<nevents, delivered>>
    /\ LET hit == IF f.kind = "reply" THEN Find(pending_requests_, f.id) ELSE 0
       IN  /\ discarded' = (discarded \/ (/\ observe = "classify"
                                          /\ f.kind = "reply"
                                          /\ hit = 0
                                          /\ f.method = "streamNotify"))
           /\ interleaved' =
                  IF observe # "events" THEN interleaved
                  ELSE IF /\ interleaved = 0
                          /\ delivered # <<>>
                          /\ hit # 0 /\ ~SetThrows(f, hit) THEN 1
                  ELSE IF /\ interleaved = 1
                          /\ IsEventNotification(f) /\ event_callback_ THEN 2
                  ELSE interleaved
           /\ badHit' = IF observe = "malformed" /\ badHit = -1 /\ Malformed(f, hit)
                        THEN (IF Unreadable(f) THEN 0 ELSE hit)
                        ELSE badHit
           /\ IF observe = "late" /\ f.kind = "reply" /\ hit = 0 /\ outcome[f.id] # "none"
              THEN late' = late \cup {f.id}
              ELSE UNCHANGED late
           /\ IF hit # 0 /\ ~SetThrows(f, hit)
              THEN /\ promise' = [promise EXCEPT ![hit] = Completion(f.body)]
                   /\ pending_requests_' = EraseSet(pending_requests_, hit)
                   /\ completions' = IF observe = "order"
                                      THEN Append(completions, hit)
                                      ELSE completions
              ELSE UNCHANGED <<promise, pending_requests_, completions>>
           /\ ws_thread_' = IF \/ Unreadable(f)
                               \/ (hit # 0 /\ SetThrows(f, hit))
                               \/ SinkThrows(f)
                            THEN CatchAll(ws_thread_)
                            ELSE ws_thread_
    /\ UNCHANGED <<connected_, running_, next_request_id_, sock,
                   crashed, pc, reqid, inConnect, outcome, observe,
                   received, sent,
                   event_callback_, server, msgs, disc, slot>>

\* L264-267: setEventCallback stores the callback (or an empty function)
\* under callback_mutex_; any thread may call it at any time.
SetEventCallback(cb) ==
    /\ ~crashed
    /\ event_callback_ # cb
    /\ event_callback_' = cb
    /\ UNCHANGED <<client, pc, reqid, inConnect, outcome, hist,
                   nevents, delivered, discarded, interleaved, server, msgs, disc, slot>>

EventLoop ==
    \/ OnOpen
    \/ OnClose
    \/ OnFail
    \/ RunEventLoopExit
    \/ \E f \in Frames : OnMessage(f)

\* ------------------------------------------------------------------ system
Next ==
    \/ \E t \in Threads : SendRequest(t)
    \/ Connect
    \/ Disconnect
    \/ EventLoop

Spec == Init /\ [][Next]_vars
SpecOrder == InitOrder /\ [][Next]_vars
SpecLate == InitLate /\ [][Next]_vars
SpecMalformed == InitMalformed /\ [][Next]_vars

\* The client with a subscriber that comes and goes.
NextEvents == Next \/ \E cb \in BOOLEAN : SetEventCallback(cb)
SpecEvents == InitEvents /\ [][NextEvents]_vars
SpecClassify == InitClassify /\ [][Next]_vars

\* Caller threads are scheduled, and wait_for (L199) returns after at most
\* timeout_seconds: a sendRequest that is under way takes its next step.
LiveSpec ==
    /\ InitMalformed
    /\ [][Next]_vars
    /\ \A t \in Threads : WF_vars(SendRequestProgress(t))

\* ==================================================================
\* Properties of the correlation engine (VMServiceClient)
\* ==================================================================
Range(q) == {q[k] : k \in 1..Len(q)}

\* The completions a reply gives a promise.
ByReply == {"value", "error"}

\* ------------------------------------------------------------------ C1
\* C1: waiters are completed in the arrival order of their replies: the
\* step that handles a frame completes at most the promise of the id that
\* frame carries, and completes it in that very step, whatever was issued
\* first; a completed call has left the table, so after the replies [2,1]
\* to the outstanding calls 1 and 2 the table is empty.
C1_Step ==
    \A f \in Frames :
        OnMessage(f) =>
            /\ \A i \in Ids :
                   promise'[i] # promise[i] =>
                       /\ f.kind = "reply"
                       /\ i = f.id
                       /\ promise'[i] \in ByReply
                       /\ i \notin pending_requests_'
                       /\ completions' = Append(completions, i)
            /\ promise' = promise => completions' = completions
            /\ \A i \in pending_requests_ \ pending_requests_' :
                   promise'[i] # promise[i]

C1_Inv ==
    /\ \A i \in Range(completions) :
           i \notin pending_requests_ /\ promise[i] \in ByReply
    /\ \A t \in Threads :
           pc[t] = "sr_wait" /\ promise[reqid[t]] \in ByReply =>
               reqid[t] \in Range(completions)

\* C1: replies complete their calls in arrival order, one per frame, and a
\* completed call has left the table.
C1_ArrivalOrder == []C1_Inv /\ [][C1_Step]_vars

\* Calls 1 and 2 were answered in the order [2,1]; both callers got their
\* result and the table is empty.
C1_Witness ==
    /\ completions = <<2, 1>>
    /\ outcome[1] = "result"
    /\ outcome[2] = "result"
    /\ pending_requests_ = {}

\* ------------------------------------------------------------------ C2
\* C2: a call whose wait timed out erases its own entry and throws Timeout;
\* a reply that finds no entry for its id completes nothing, raises nothing
\* and leaves the table as it was.
C2_Step ==
    /\ \A t \in Threads :
           pc[t] = "sr_expired" /\ pc'[t] # "sr_expired" =>
               /\ outcome'[reqid[t]] = "Timeout"
               /\ reqid[t] \notin pending_requests_'
    /\ \A f \in Frames :
           OnMessage(f) /\ f.kind = "reply" /\ f.id \notin pending_requests_ =>
               UNCHANGED <<pending_requests_, promise, outcome, pc, crashed,
                           ws_thread_, connected_, running_>>

C2_Inv ==
    \A i \in Ids : outcome[i] = "Timeout" => i \notin pending_requests_

\* C2: a timed-out call removes its own entry and a reply without an entry
\* is dropped without effect.
C2_TimeoutDropsLateReply == []C2_Inv /\ [][C2_Step]_vars

\* A call timed out without ever being completed, and its reply came later.
C2_Witness ==
    \E i \in Ids :
        /\ outcome[i] = "Timeout"
        /\ promise[i] = "broken"
        /\ i \in late

\* ------------------------------------------------------------------ C3
\* disconnect() returns to its caller in this step (not to connect()).
DisconnectReturns ==
    /\ DisconnectBegin \/ (DisconnectClear /\ ~inConnect)
    /\ pc'[Ctl] = "idle"

\* C3: disconnect() on a connected client fails every call still in the
\* table with ConnectionClosed and leaves the table empty; the callers that
\* wait on those calls get ConnectionClosed; after it has returned the
\* client is neither connected nor running, stays so until a connect(), and
\* a further disconnect() changes nothing.
C3_Step ==
    /\ DisconnectClear =>
           /\ pending_requests_' = {}
           /\ \A i \in pending_requests_ : promise'[i] = "closed"
    /\ \A t \in Threads :
           SendRequestReady(t) /\ promise[reqid[t]] = "closed" =>
               outcome'[reqid[t]] = "ConnectionClosed"
    /\ DisconnectBegin /\ connected_ => pc'[Ctl] = "d_join"
    /\ DisconnectReturns => ~connected_' /\ ~running_'
    /\ (/\ ~connected_ /\ ~running_
        /\ pc[Ctl] = "idle" /\ pc'[Ctl] = "idle"
        /\ ~crashed') => (~connected_' /\ ~running_')
    /\ DisconnectBegin /\ ~connected_ /\ ~running_ =>
           /\ pc'[Ctl] = "idle"
           /\ UNCHANGED <<client, reqid, outcome>>

\* C3: disconnect() on a connected client fails all pending calls with
\* ConnectionClosed, empties the table and is idempotent afterwards.
C3_DisconnectFailsAll == [][C3_Step]_vars

\* Two calls were outstanding when disconnect() ran; both ended with
\* ConnectionClosed and the table is empty.
C3_Witness ==
    /\ pc[Ctl] = "idle"
    /\ ~connected_ /\ ~running_
    /\ pending_requests_ = {}
    /\ \A i \in {1, 2} : promise[i] = "closed" /\ outcome[i] = "ConnectionClosed"

\* ------------------------------------------------------------------ C4
\* C4: when the transport reports that the socket closed or failed, the
\* client is no longer connected and, in that step, every pending call is
\* failed with "connection closed" and the table is cleared.
C4_Step ==
    (OnClose \/ OnFail) =>
        /\ ~connected_'
        /\ pending_requests_' = {}
        /\ \A i \in pending_requests_ : promise'[i] = "closed"

\* C4: a socket close or failure fails every pending call and clears the
\* table in the step that reports it.
C4_CloseFailsPending == [][C4_Step]_vars

\* ------------------------------------------------------------------ C5
Terminal == {"result", "error", "Timeout", "ConnectionClosed"}
Satisfied == {"value", "error", "closed", "broken"}

\* C5: a call has at most one terminal transition: its outcome, once set,
\* never changes; its promise, once completed, never changes; a call that
\* was sent ends with one of result, remote error, Timeout and
\* ConnectionClosed; its entry leaves the table with the completion (an
\* entry in the table is uncompleted, a finished call has no entry) and is
\* never put back.
C5_Step ==
    \A i \in Ids :
        /\ outcome[i] # "none" => outcome'[i] = outcome[i]
        /\ promise[i] \in Satisfied => promise'[i] = promise[i]
        /\ (i \in pending_requests_' /\ i \notin pending_requests_) =>
               (promise[i] = "unset" /\ outcome[i] = "none")
        /\ \A t \in Threads :
               (/\ pc[t] \in {"sr_wait", "sr_expired"}
                /\ reqid[t] = i
                /\ pc'[t] \notin {"sr_wait", "sr_expired"}) =>
                   outcome'[i] \in Terminal

C5_Inv ==
    /\ \A i \in pending_requests_ : promise[i] = "unset" /\ outcome[i] = "none"
    /\ \A t \in Threads :
           pc[t] = "sr_wait" =>
               (reqid[t] \in pending_requests_ <=> promise[reqid[t]] = "unset")

\* C5: every call has exactly one terminal transition and its entry leaves
\* the table with it.
C5_OneTerminalTransition == []C5_Inv /\ [][C5_Step]_vars

\* The race of the three terminations: the wait of a call timed out and,
\* before the call erased its entry, a reply (or disconnect) completed it.
C5_Witness ==
    \E i \in Ids :
        /\ outcome[i] = "Timeout"
        /\ promise[i] \in {"value", "closed"}

\* ------------------------------------------------------------------ C6
InCall == {"sr_insert", "sr_send", "sr_wait", "sr_expired"}

\* C6: every id a call takes is larger than every id taken before (the
\* counter only grows, also across disconnect and connect, and a taken id is
\* below it), so no two calls under way share an id and no id in the table
\* is ever handed out again.
C6_Step ==
    /\ next_request_id_' >= next_request_id_
    /\ \A t \in Threads :
           (reqid'[t] # reqid[t] /\ reqid'[t] # 0) =>
               /\ reqid'[t] = next_request_id_
               /\ next_request_id_' > reqid'[t]
               /\ promise[reqid'[t]] = "none"

C6_Inv ==
    /\ \A i \in pending_requests_ : i < next_request_id_
    /\ \A i \in Ids : i >= next_request_id_ => promise[i] = "none"
    /\ \A t \in Threads, u \in Threads :
           (t # u /\ pc[t] \in InCall /\ pc[u] \in InCall) => reqid[t] # reqid[u]

\* C6: request ids strictly increase and are never reused.
C6_IdsIncrease == []C6_Inv /\ [][C6_Step]_vars

\* Two threads are inside sendRequest at once, with the ids 1 and 2 in the
\* table.
C6_Witness ==
    /\ pending_requests_ = {1, 2}
    /\ pc["t1"] = "sr_wait"
    /\ pc["t2"] = "sr_wait"
    /\ reqid["t1"] # reqid["t2"]

\* ------------------------------------------------------------------ C7
\* The call with id i fails in this step: by timeout, by a failed send, or
\* by an error reply.
FailsAlone(i) ==
    \/ \E t \in Threads :
           /\ reqid[t] = i
           /\ SendRequestTimeout(t) \/ (SendRequestSend(t) /\ sock # "open")
    \/ \E f \in Frames :
           /\ f.kind = "reply" /\ f.id = i /\ f.body \in {"error", "badError"}
           /\ OnMessage(f)

\* C7: the failure of one call leaves every other call as it was: in the
\* table if it was there, its promise and its outcome untouched.
C7_Step ==
    \A i \in Ids :
        FailsAlone(i) =>
            \A j \in Ids \ {i} :
                /\ (j \in pending_requests_') = (j \in pending_requests_)
                /\ promise'[j] = promise[j]
                /\ outcome'[j] = outcome[j]

\* C7: the failure of one call leaves every other pending call untouched.
C7_FailureIsLocal == [][C7_Step]_vars

\* Call 2 has failed while call 1 is still in the table, uncompleted, with
\* its caller waiting.
C7_Witness ==
    /\ outcome[2] \in {"Timeout", "error", "SendFailed"}
    /\ 1 \in pending_requests_
    /\ promise[1] = "unset"
    /\ \E t \in Threads : pc[t] = "sr_wait" /\ reqid[t] = 1

\* ------------------------------------------------------------------ C8
\* The frame makes onMessage throw: unreadable text, a string id, or a
\* reply to a pending call whose "error" member is not an object.
Throws(f) ==
    \/ Unreadable(f)
    \/ f.kind = "reply" /\ f.id \in pending_requests_ /\ f.body = "badError"

\* C8: a malformed frame neither ends the event loop nor touches any call
\* (the loop is where it was and handles the frames that follow), and every
\* call under way still ends, be it by a later reply, by its timeout or by
\* disconnect (unless the process was terminated).
C8_Step ==
    \A f \in Frames :
        OnMessage(f) /\ Throws(f) =>
            /\ ws_thread_' = "running"
            /\ ~crashed'
            /\ UNCHANGED <<sock, connected_, running_, pending_requests_,
                           promise, outcome, pc>>

\* C8: a malformed frame leaves the event loop and every call as they were,
\* and every call under way still ends.
C8_MalformedFrameHarmless ==
    /\ [][C8_Step]_vars
    /\ \A t \in Threads :
           (badHit # -1 /\ pc[t] \in InCall) ~> (pc[t] \notin InCall \/ crashed)

\* A wrong-shaped reply hit the entry of a pending call, and a later,
\* well-formed reply completed that call.
C8_Witness ==
    \E i \in Ids : badHit = i /\ outcome[i] = "result"

\* ------------------------------------------------------------------ C9
\* connect() returns false in this step.
ConnectFails ==
    \/ ConnectBadUri
    \/ (ConnectThrows \/ ConnectTimeout \/ ConnectQueryFailed) /\ pc'[Ctl] = "idle"
    \/ DisconnectClear /\ inConnect

\* C9: when connect() reports failure the client is torn down: not
\* connected, event loop stopped, its thread joined, table empty.
C9_Step ==
    ConnectFails =>
        /\ ~connected_'
        /\ ~running_'
        /\ ws_thread_' = "none"
        /\ pending_requests_' = {}

\* C9: a connect() that reports failure leaves the client fully torn down.
C9_FailedConnectTornDown == [][C9_Step]_vars

\* ------------------------------------------------------------------ C10
\* C10: after disconnect() has returned the client is not connected, the
\* event loop thread has been joined and no call is left pending.
C10_Step ==
    DisconnectReturns =>
        /\ ~connected_'
        /\ ws_thread_' = "none"
        /\ pending_requests_' = {}

\* C10: a disconnect() that has returned leaves the client not connected,
\* its thread joined and no call pending.
C10_DisconnectTearsDown == [][C10_Step]_vars

\* ------------------------------------------------------------------ C11
\* The call of thread t has returned to its caller and left no entry.
Ended(t) == pc[t] \notin InCall

Resolves(f) ==
    /\ promise' = [promise EXCEPT ![f.id] = IF f.body = "error" THEN "error" ELSE "value"]
    /\ pending_requests_' = pending_requests_ \ {f.id}
    /\ delivered' = delivered

\* The frame f is handed to the callback, if there is one, and changes
\* nothing else.
PassedToSink(f) ==
    /\ event_callback_ => Len(delivered') = Len(delivered) + 1
    /\ UNCHANGED <<client, outcome>>

\* The frame f is dropped.
Discarded(f) == UNCHANGED <<client, outcome, delivered>>

Increasing(q) == \A j \in 1..Len(q), k \in 1..Len(q) : j < k => q[j] < q[k]

\* Only onMessage, handling an event notification on the event loop, gives
\* the callback anything: the event that just arrived, once, after all
\* earlier ones. Every event that arrives while a callback is subscribed is
\* given to it in the step that handles its frame; replies and all other
\* steps leave the deliveries alone.
C13_Step ==
    /\ delivered' # delivered =>
           /\ nevents' = nevents + 1
           /\ delivered' = Append(delivered, nevents')
           /\ event_callback_
           /\ OnLoop
           /\ UNCHANGED <<client, pc, outcome>>
    /\ (nevents' # nevents /\ event_callback_) => delivered' # delivered

C13_Inv ==
    /\ Increasing(delivered)
    /\ \A k \in 1..Len(delivered) : delivered[k] \in 1..nevents

\* C13: the subscribed callback gets every event notification once, from
\* the event loop, in the order of arrival, also with replies in between.
C13_EventsInArrivalOrder == []C13_Inv /\ [][C13_Step]_vars

\* Two events were delivered in their order of arrival, with a reply that
\* resolved a call between them.
C13_Witness == delivered = <<1, 2>> /\ interleaved = 2

\* ==================================================================
\* Part 2: the dispatch engine (message model, MessageHandler, Server)
\* ==================================================================
\* ------------------------------------------------------------------ message model
\* The id of a Request or Response: std::variant<string, int64_t, nullptr_t>.
Nullptr == [t |-> "nullptr", v |-> 0]

\* Faulty variant of IdFromJson: a string id is dropped.
IdFromJsonIntOnly(j) ==
    IF j.t = "int" THEN [t |-> "int64_t", v |-> j.v] ELSE [t |-> "nullptr", v |-> 0]

\* message.cpp L89-100: the id of a parsed request. A frame without an id
\* keeps the default of the struct (message.h L55), nullptr.
IdFromJson(j) ==
    CASE j.t = "string" -> [t |-> "string", v |-> j.v]
      [] j.t = "int" -> [t |-> "int64_t", v |-> j.v]
      [] OTHER -> Nullptr

\* Faulty variant of IdToJson: only an integer id is written back.
IdToJsonIntOnly(id) ==
    IF id.t = "int64_t" THEN [t |-> "int", v |-> id.v] ELSE [t |-> "null", v |-> 0]

\* message.cpp L179-186: the id member of a serialized Response.
IdToJson(id) ==
    CASE id.t = "string" -> [t |-> "string", v |-> id.v]
      [] id.t = "int64_t" -> [t |-> "int", v |-> id.v]
      [] OTHER -> [t |-> "null", v |-> 0]

\* Faulty variant of ValidateThrows: the version is not looked at.
ValidateAnyVersion(f) ==
    \/ ~f.object
    \/ (f.method = "absent" /\ ~f.hasResult)
    \/ (f.method # "absent" /\ f.method = "nonstring")
    \/ (f.method # "absent" /\ f.params.shape \in {"scalar", "null"})

\* message.cpp L221-247: validateJsonRpc throws.
ValidateThrows(f) ==
    \/ ~f.object
    \/ f.jsonrpc # "2.0"
    \/ (f.method = "absent" /\ ~f.hasResult)
    \/ (f.method # "absent" /\ f.method = "nonstring")
    \/ (f.method # "absent" /\ f.params.shape \in {"scalar", "null"})

\* message.cpp L69-103: Request::parse throws: the text is not JSON, the
\* validation fails, there is no "method" (at() throws), or the id is
\* neither a string, an integer nor null.
ParseThrows(f) ==
    \/ ~f.json
    \/ ValidateThrows(f)
    \/ f.method = "absent"
    \/ f.id.t \in {"float", "bool"}

\* What the exception of Request::parse says after its prefix "Failed to
\* parse JSON-RPC request: " (message.cpp L74): the text of the exception
\* of json::parse, of validateJsonRpc (L223-243), of at("method") (L83) or
\* of the id test (L98).
ParseWhat(f) ==
    CASE ~f.json -> "syntax error"
      [] ~f.object -> "JSON-RPC message must be an object"
      [] f.jsonrpc # "2.0" -> "JSON-RPC version must be '2.0'"
      [] f.method = "absent" /\ ~f.hasResult ->
             "JSON-RPC message must have 'method' or 'result'/'error'"
      [] f.method = "absent" -> "key 'method' not found"
      [] f.method = "nonstring" -> "JSON-RPC 'method' must be a string"
      [] f.params.shape \in {"scalar", "null"} ->
             "JSON-RPC 'params' must be an object or array"
      [] OTHER -> "Invalid id type in JSON-RPC request"

\* message.cpp L78-103: the Request of a frame that parses. Without a
\* "params" member the request keeps the default, an empty object.
FromJson(f) ==
    [method |-> f.method,
     params |-> IF f.params.shape = "absent" THEN EmptyObject ELSE f.params,
     id |-> IdFromJson(f.id)]

\* Faulty variant of HasId: a message without an id is taken for a request.
HasIdAlways(req) == TRUE

\* message.cpp L131-133
HasId(req) == req.id.t # "nullptr"

\* message.cpp L8-41: Error::fromCode with its default data (nullopt, here
\* the empty set). An empty message is replaced by the default text of
\* the code.
DefaultMessage(code) ==
    CASE code = ParseError -> "Parse error"
      [] code = InvalidRequest -> "Invalid request"
      [] code = MethodNotFound -> "Method not found"
      [] code = InvalidParams -> "Invalid params"
      [] code = InternalError -> "Internal error"
      [] OTHER -> "Server error"

\* Faulty variant of FromCode: the text is stored as data, under the default message.
FromCodeAsData(code, message) ==
    [code |-> code, message |-> DefaultMessage(code), data |-> {message}]

FromCode(code, message) ==
    [code |-> code,
     message |-> IF message = "" THEN DefaultMessage(code) ELSE message,
     data |-> {}]

\* Faulty variant of Success: the id of the request is not copied.
SuccessNoId(result, id) == [result |-> {result}, error |-> {}, id |-> Nullptr]

\* message.cpp L146-152: Response::success. The optionals result and error
\* are sets with at most one element.
Success(result, id) == [result |-> {result}, error |-> {}, id |-> id]

\* Faulty variant of ErrorResponse: the response has a result as well.
ErrorResponseBoth(error, id) ==
    [result |-> {[kind |-> "none", tools |-> {}]}, error |-> {error}, id |-> id]

\* message.cpp L154-160: Response::errorResponse
ErrorResponse(error, id) == [result |-> {}, error |-> {error}, id |-> id]

\* message.cpp L162-189: Response::serialize, as the members of the frame.
Serialize(resp) ==
    [result |-> resp.result, error |-> resp.error, id |-> IdToJson(resp.id)]

\* ------------------------------------------------------------------ handlers
\* What a handler call gives: it threw (what is e.what()) or returned
\* result; init and cinfo are initialized_ and client_info_ after it.
Throw(what) ==
    [threw |-> TRUE, what |-> what, result |-> [kind |-> "none", tools |-> {}],
     init |-> initialized_, cinfo |-> client_info_]
Return(result) ==
    [threw |-> FALSE, what |-> "", result |-> result,
     init |-> initialized_, cinfo |-> client_info_]

\* Faulty variant of Gated: no handler looks at initialized_.
GatedNone(h) == FALSE

\* Faulty variant of Gated: every handler but initialize looks at initialized_.
GatedAll(h) == h # "handleInitialize"

\* server.cpp L172 and L188: the handlers that refuse to run before initialize.
Gated(h) == h \in {"handleToolsList", "handleToolsCall"}

\* Faulty variant of AlreadyInitialized: the test of L146 is missing.
NeverAlready(init) == FALSE

\* server.cpp L146
AlreadyInitialized(init) == init

\* Faulty variant of FlagAfterInitialize: initialized_ is set before the params are read.
FlagSetFirst(threw) == TRUE

\* server.cpp L160: initialized_ is set after the params were read without
\* an exception.
FlagAfterInitialize(threw) == IF threw THEN initialized_ ELSE TRUE

\* server.cpp L143-167. ClientInfo::fromJson (types.h L42-47) throws when
\* name or version is missing; params.value (L157) throws when params is
\* an array or protocolVersion is not a string.
handleInitialize(p) ==
    IF AlreadyInitialized(initialized_) THEN Throw("Server already initialized")
    ELSE IF p.clientInfo = "bad"
    THEN [Throw("json exception") EXCEPT !.init = FlagAfterInitialize(TRUE)]
    ELSE LET threw == p.shape = "array" \/ p.protocolVersion = "bad"
             cinfo == client_info_ \/ p.clientInfo = "ok"
         IN  IF threw
             THEN [Throw("json exception") EXCEPT
                      !.init = FlagAfterInitialize(TRUE), !.cinfo = cinfo]
             ELSE [Return([kind |-> "initialize", tools |-> {}]) EXCEPT
                      !.init = FlagAfterInitialize(FALSE), !.cinfo = cinfo]

\* server.cpp L169-185
handleToolsList(p) ==
    IF Gated("handleToolsList") /\ ~initialized_ THEN Throw("Server not initialized")
    ELSE Return([kind |-> "tools", tools |-> tools_])

\* server.cpp L187-223. params.at("name") throws when params is an array or
\* has no name, get<std::string> when the name is not a string; o is what
\* the tool's execute does.
handleToolsCall(p, o) ==
    IF Gated("handleToolsCall") /\ ~initialized_ THEN Throw("Server not initialized")
    ELSE IF p.shape # "object" \/ p.name \in {"absent", "nonstring"}
    THEN Throw("json exception")
    ELSE IF p.name \notin tools_ THEN Throw("Tool not found")
    ELSE CASE o = "returns" -> Return([kind |-> "content", tools |-> {p.name}])
           [] o = "throws" -> Throw("tool failed")
           [] OTHER -> Throw("")

\* server.cpp L225-227
handlePing(p) ==
    IF Gated("handlePing") /\ ~initialized_ THEN Throw("Server not initialized")
    ELSE Return([kind |-> "object", tools |-> {}])

\* The call of the std::function stored under a method name (L122-138).
Call(h, p, o) ==
    CASE h = "handleInitialize" -> handleInitialize(p)
      [] h = "handleToolsList" -> handleToolsList(p)
      [] h = "handleToolsCall" -> handleToolsCall(p, o)
      [] OTHER -> handlePing(p)

\* ------------------------------------------------------------------ MessageHandler
\* handler.cpp L16-18
HasMethod(m) == methods_[m] # "none"

\* handler.cpp L20-48: the Response to a request; out is what the handler
\* call gave (when there was one).
HandleRequest(req, out) ==
    IF ~HasMethod(req.method)
    THEN ErrorResponse(FromCode(MethodNotFound, "Method not found: name"), req.id)
    ELSE IF out.threw
    THEN ErrorResponse(FromCode(InternalError, out.what), req.id)
    ELSE Success(out.result, req.id)

\* Faulty variant of ParseErrorResponse: the failure is reported as an
\* internal error under the id 7.
ParseErrorAsInternal(what) ==
    ErrorResponse(FromCode(InternalError, what), [t |-> "int64_t", v |-> 7])

\* handler.cpp L79-87: the response to a frame whose parse threw what.
ParseErrorResponse(what) == ErrorResponse(FromCode(ParseError, what), Nullptr)

\* handler.cpp L50-88: handleMessage on the frame f, with o what a tool
\* does if one is executed. A frame that does not parse gets a ParseError
\* response with a null id; a notification runs its handler, if there is
\* one, and returns ""; a request returns its serialized response.
HandleMessage(f, o) ==
    IF ParseThrows(f)
    THEN /\ reply' = {Serialize(ParseErrorResponse(ParseWhat(f)))}
         /\ invoked' = <<>>
         /\ UNCHANGED <<initialized_, client_info_>>
    ELSE LET req == FromJson(f)
             out == Call(methods_[req.method], req.params, o)
         IN  /\ IF HasMethod(req.method)
                THEN /\ invoked' = <<methods_[req.method]>>
                     /\ initialized_' = out.init
                     /\ client_info_' = out.cinfo
                ELSE /\ invoked' = <<>>
                     /\ UNCHANGED <<initialized_, client_info_>>
             /\ reply' = IF HasId(req)
                         THEN {Serialize(HandleRequest(req, out))}
                         ELSE {}

\* ------------------------------------------------------------------ Server
\* The most lines a recorded run of the receive loop reads.
MaxFrames == 3

\* server.cpp L229-245, called by the receive loop of the transport
\* (stdio_transport.cpp L121-141) for every non-empty line it reads while
\* the transport is ready.
ProcessMessage(f, o) ==
    /\ server_running_
    /\ ready_
    /\ (observe = "wire") => Len(received) < MaxFrames
    /\ HandleMessage(f, o)
    /\ IF observe = "wire"
       THEN /\ received' = Append(received, [id |-> f.id, parses |-> ~ParseThrows(f)])
            /\ sent' = IF reply' = {}
                       THEN sent
                       ELSE Append(sent, (CHOOSE r \in reply' : TRUE).id)
       ELSE UNCHANGED <<received, sent>>
    /\ UNCHANGED <<server_running_, ready_, methods_, tools_, last_op>>
    /\ UNCHANGED <<observe, late, completions, badHit>>
    /\ UNCHANGED <<client, pc, reqid, inConnect, outcome, sink, msgs, disc, slot>>

\* stdio_transport.cpp L127 and server.cpp L230-232: an empty line is passed
\* over; nothing is dispatched and nothing is written.
ProcessEmptyMessage ==
    /\ server_running_
    /\ ready_
    /\ UNCHANGED vars

\* server.cpp L74-83: main() registers the tools before it starts the server.
RegisterTool(n) ==
    /\ ~server_running_
    /\ n \notin tools_
    /\ tools_' = tools_ \cup {n}
    /\ UNCHANGED <<initialized_, server_running_, ready_, methods_,
                   client_info_, reply, invoked,
                   last_op>>
    /\ UNCHANGED <<client, pc, reqid, inConnect, outcome, hist, sink, msgs, disc, slot>>

UnregisterTool(n) ==
    /\ ~server_running_
    /\ n \in tools_
    /\ tools_' = tools_ \ {n}
    /\ UNCHANGED <<initialized_, server_running_, ready_, methods_,
                   client_info_, reply, invoked,
                   last_op>>
    /\ UNCHANGED <<client, pc, reqid, inConnect, outcome, hist, sink, msgs, disc, slot>>

\* server.cpp L28-50: start() on a server that is not running and whose
\* transport is ready; the receive loop begins to deliver frames.
Start ==
    /\ ~server_running_
    /\ ready_
    /\ server_running_' = TRUE
    /\ UNCHANGED <<initialized_, ready_, methods_, tools_, client_info_,
                   reply, invoked,
                   last_op>>
    /\ UNCHANGED <<client, pc, reqid, inConnect, outcome, hist, sink, msgs, disc, slot>>

\* server.cpp L60-68: stop() clears running_ and closes the transport
\* (stdio_transport.cpp L88-92).
Stop ==
    /\ server_running_
    /\ server_running_' = FALSE
    /\ ready_' = FALSE
    /\ UNCHANGED <<initialized_, methods_, tools_, client_info_, reply, invoked,
                   last_op>>
    /\ UNCHANGED <<client, pc, reqid, inConnect, outcome, hist, sink, msgs, disc, slot>>

\* stdio_transport.cpp L72-75: end of input; the receive loop ends.
Eof ==
    /\ server_running_
    /\ ready_
    /\ ready_' = FALSE
    /\ UNCHANGED <<initialized_, server_running_, methods_, tools_,
                   client_info_, reply, invoked,
                   last_op>>
    /\ UNCHANGED <<client, pc, reqid, inConnect, outcome, hist, sink, msgs, disc, slot>>

NextServer ==
    \/ \E f \in ServerFrames : \E o \in OutcomesOf(f) : ProcessMessage(f, o)
    \/ \E n \in ToolNames : RegisterTool(n) \/ UnregisterTool(n)
    \/ Start
    \/ Stop
    \/ Eof
    \/ ProcessEmptyMessage

SpecServer == Init /\ [][NextServer]_vars

\* The same server, with the lines it reads and the frames it writes recorded.
SpecWire == InitWire /\ [][NextServer]_vars

\* ------------------------------------------------------------------ registry
\* The names and handlers with which registerMethod and unregisterMethod
\* are called after the constructor: a name the constructor registered and
\* one it did not.
RegistryNames == {"ping", "foo"}
RegistryHandlers == {"handlePing", "handleToolsList", "handleInitialize"}

\* Faulty variant of Insert: a name that is registered keeps its handler.
InsertIfAbsent(reg, m, h) == IF reg[m] = "none" THEN [reg EXCEPT ![m] = h] ELSE reg

\* handler.cpp L7: methods_[method] = std::move(handler)
Insert(reg, m, h) == [reg EXCEPT ![m] = h]

\* handler.cpp L12: methods_.erase(method)
Erase(reg, m) == [reg EXCEPT ![m] = "none"]

\* handler.cpp L6-9: registerMethod, called while the server is not
\* receiving (methods_ has no lock).
RegisterMethod(m, h) ==
    /\ ~server_running_
    /\ methods_' = Insert(methods_, m, h)
    /\ last_op' = [last_op EXCEPT ![m] = [op |-> "register", handler |-> h]]
    /\ UNCHANGED <<initialized_, server_running_, ready_, tools_, client_info_,
                   reply, invoked>>
    /\ UNCHANGED <<client, pc, reqid, inConnect, outcome, hist, sink, msgs, disc, slot>>

\* handler.cpp L11-14: unregisterMethod
UnregisterMethod(m) ==
    /\ ~server_running_
    /\ methods_' = Erase(methods_, m)
    /\ last_op' = [last_op EXCEPT ![m] = [op |-> "unregister", handler |-> "none"]]
    /\ UNCHANGED <<initialized_, server_running_, ready_, tools_, client_info_,
                   reply, invoked>>
    /\ UNCHANGED <<client, pc, reqid, inConnect, outcome, hist, sink, msgs, disc, slot>>

\* The frames sent after the registry calls: requests and notifications
\* for the two names, without params.
RegistryFrames ==
    {f \in ServerFrames :
        /\ f.method \in RegistryNames
        /\ f.params = NoParams
        /\ f.id.t \in {"absent", "int", "string"}}

NextRegistry ==
    \/ Start
    \/ \E f \in RegistryFrames : ProcessMessage(f, "returns")
    \/ \E m \in RegistryNames : \E h \in RegistryHandlers : RegisterMethod(m, h)
    \/ \E m \in RegistryNames : UnregisterMethod(m)

SpecRegistry == Init /\ [][NextRegistry]_vars

\* handler.cpp L20-31: handleRequest on the request f, up to the test of
\* hasMethod; a name that is not registered is answered at once.
HandleRequestLookup(f) ==
    /\ request = {}
    /\ f.id.t # "absent"
    /\ LET req == FromJson(f)
       IN  IF HasMethod(req.method)
           THEN /\ request' = {req}
                /\ UNCHANGED <<reply, invoked>>
           ELSE /\ reply' = {Serialize(HandleRequest(req, Return(EmptyObject)))}
                /\ invoked' = <<>>
                /\ UNCHANGED request
    /\ UNCHANGED <<initialized_, server_running_, ready_, methods_, tools_,
                   client_info_, last_op>>
    /\ UNCHANGED <<client, pc, reqid, inConnect, outcome, hist, sink, msgs, disc,
                   ws_uri_, g_vm_client, made, opened, last_call>>

\* handler.cpp L33-47: methods_.at(request.method) copies the handler, or
\* throws std::out_of_range when the name was erased since L24; the copy is
\* called, and the catch block turns whatever was thrown into InternalError.
HandleRequestInvoke ==
    /\ \E req \in request :
           LET out == IF HasMethod(req.method)
                      THEN Call(methods_[req.method], req.params, "returns")
                      ELSE Throw("out_of_range")
           IN  /\ reply' = {Serialize(IF out.threw
                                      THEN ErrorResponse(FromCode(InternalError, out.what),
                                                         req.id)
                                      ELSE Success(out.result, req.id))}
               /\ invoked' = IF HasMethod(req.method)
                             THEN <<methods_[req.method]>>
                             ELSE <<>>
               /\ initialized_' = out.init
               /\ client_info_' = out.cinfo
    /\ request' = {}
    /\ UNCHANGED <<server_running_, ready_, methods_, tools_, last_op>>
    /\ UNCHANGED <<client, pc, reqid, inConnect, outcome, hist, sink, msgs, disc,
                   ws_uri_, g_vm_client, made, opened, last_call>>

\* One thread dispatches while others register and unregister.
NextDispatch ==
    \/ \E f \in RegistryFrames : HandleRequestLookup(f)
    \/ HandleRequestInvoke
    \/ \E m \in RegistryNames : \E h \in RegistryHandlers : RegisterMethod(m, h)
    \/ \E m \in RegistryNames : UnregisterMethod(m)

SpecDispatch == Init /\ [][NextDispatch]_vars

\* ==================================================================
\* Part 3: the message model on its own (Request, Response, validateJsonRpc)
\* ==================================================================
\* A Request or a Response is a struct with public members (message.h
\* L51-56, L93-98): any value of the member types can be put together. The
\* member jsonrpc keeps its initialiser "2.0" and is left out.
\* The params of a constructed Request: the default (an empty object), an
\* object with a member, an array, and null.
ParamValues ==
    {EmptyObject,
     [EmptyObject EXCEPT !.name = "tap"],
     [NoParams EXCEPT !.shape = "array"],
     [NoParams EXCEPT !.shape = "null"]}

\* The ids of a constructed Request or Response.
RequestIds == {Nullptr, [t |-> "int64_t", v |-> 7], [t |-> "string", v |-> 1]}

\* message.h L51-56: the Request values.
Envelopes == [method : {"ping", "foo"}, params : ParamValues, id : RequestIds]

\* message.h L93-98: the Response values; result and error are optionals,
\* both empty after `Response resp;`.
ResponseValues ==
    [result : {{}, {[kind |-> "object", tools |-> {}]}},
     error : {{}, {FromCode(InternalError, "")}},
     id : RequestIds]

IsRequestValue(v) == "method" \in DOMAIN v
IsResponseValue(v) == "result" \in DOMAIN v

\* Faulty variant of RequestToJson: the params are written even when null.
RequestToJsonNullParams(req) ==
    [json |-> TRUE, object |-> TRUE, jsonrpc |-> "2.0", method |-> req.method,
     hasResult |-> FALSE, params |-> req.params, id |-> IdToJson(req.id)]

\* message.cpp L105-129: Request::serialize. The params are written unless
\* they are null (L115-117); the id is always written, null for nullptr
\* (L119-126, as in Response::toJson).
RequestToJson(req) ==
    [json |-> TRUE, object |-> TRUE, jsonrpc |-> "2.0", method |-> req.method,
     hasResult |-> FALSE,
     params |-> IF req.params.shape = "null" THEN NoParams ELSE req.params,
     id |-> IdToJson(req.id)]

\* message.cpp L162-189: Response::serialize, as a text: the members result
\* and error are written when they are set.
ResponseToJson(resp) ==
    [json |-> TRUE, object |-> TRUE, jsonrpc |-> "2.0", method |-> "absent",
     hasResult |-> (resp.result # {} \/ resp.error # {}),
     params |-> NoParams, id |-> IdToJson(resp.id)]

\* message.cpp L69-76: Request::parse, which returns the Request or throws
\* std::runtime_error("Failed to parse JSON-RPC request: ...") whatever went
\* wrong.
Parse(f) ==
    IF ParseThrows(f)
    THEN [by |-> "parse", threw |-> TRUE, req |-> {}]
    ELSE [by |-> "parse", threw |-> FALSE, req |-> {FromJson(f)}]

\* message.cpp L221-247: validateJsonRpc, which returns or throws.
Validate(f) == [by |-> "validate", threw |-> ValidateThrows(f), req |-> {}]

\* A Request is put together.
ConstructRequest(e) ==
    /\ value = {} /\ text = {} /\ parsed = {}
    /\ value' = {e}
    /\ UNCHANGED <<text, parsed>>
    /\ UNCHANGED <<client, pc, reqid, inConnect, outcome, hist, sink, server, disc, slot>>

\* A Response is put together: by Response::success, by
\* Response::errorResponse, or member by member.
ConstructResponse(r) ==
    /\ value = {} /\ text = {} /\ parsed = {}
    /\ value' = {r}
    /\ UNCHANGED <<text, parsed>>
    /\ UNCHANGED <<client, pc, reqid, inConnect, outcome, hist, sink, server, disc, slot>>

\* serialize() of the value at hand.
SerializeValue ==
    /\ text = {}
    /\ \E v \in value :
           text' = {IF IsRequestValue(v) THEN RequestToJson(v) ELSE ResponseToJson(v)}
    /\ UNCHANGED <<value, parsed>>
    /\ UNCHANGED <<client, pc, reqid, inConnect, outcome, hist, sink, server, disc, slot>>

\* A text arrives from outside.
ReceiveText(f) ==
    /\ value = {} /\ text = {} /\ parsed = {}
    /\ text' = {f}
    /\ UNCHANGED <<value, parsed>>
    /\ UNCHANGED <<client, pc, reqid, inConnect, outcome, hist, sink, server, disc, slot>>

\* Request::parse of the text at hand.
ParseText ==
    /\ parsed = {}
    /\ \E f \in text : parsed' = {Parse(f)}
    /\ UNCHANGED <<value, text>>
    /\ UNCHANGED <<client, pc, reqid, inConnect, outcome, hist, sink, server, disc, slot>>

\* validateJsonRpc of the text at hand.
ValidateText ==
    /\ parsed = {}
    /\ \E f \in text : parsed' = {Validate(f)}
    /\ UNCHANGED <<value, text>>
    /\ UNCHANGED <<client, pc, reqid, inConnect, outcome, hist, sink, server, disc, slot>>

NextMessage ==
    \/ \E e \in Envelopes : ConstructRequest(e)
    \/ \E r \in ResponseValues : ConstructResponse(r)
    \/ SerializeValue
    \/ \E f \in ServerFrames : ReceiveText(f)
    \/ ParseText
    \/ ValidateText

SpecMessage == Init /\ [][NextMessage]_vars

\* ==================================================================
\* Part 4: flutter::InstanceDiscovery (src/src/flutter/instance_discovery.cpp)
\* ==================================================================
\* What a probe finds on its port:
\*   refused   : httpGet cannot connect and returns "" (L233-236)
\*   timeout   : nothing is received before the socket timeout, the
\*               response is empty (L77-79)
\*   raises    : the page is an Observatory page and the websocket opens,
\*               but getVM is answered with an error: sendRequest throws
\*               inside connect(), which disconnects and returns false
\*   malformed : getVM is answered, but the result has no "type" or no
\*               "name" (L145-148)
\*   wsFails   : the page is an Observatory page, but the websocket
\*               handshake fails at once
\*   valid     : the result of getVM has "type" and "name"
FailureKinds == {"refused", "timeout", "raises", "malformed", "wsFails"}
ServiceKinds == FailureKinds \cup {"valid"}

\* vm_service_client.cpp L62-71, L86-89 and L11-13 in validateFlutterService
\* (L133-156): after a handshake that failed the event loop has ended, and
\* disconnect() returns early, from connect() and from the destructor; the
\* destructor of the client then destroys ws_thread_ while it is joinable,
\* which calls std::terminate.
Terminates(kind) == kind = "wsFails"

\* How step 5 of probePort (L103-125), the second connection, goes once
\* the service was validated:
\*   answered     : connect() returns true and getVM is answered
\*   queryFails   : connect() returns true and callServiceMethod throws
\*   connectFalse : connect() returns false: getMainIsolateId threw inside
\*                  connect(), which disconnected (vm_service_client.cpp L74-83)
\*   wsFails      : the websocket handshake fails at once
FollowUps == {"answered", "queryFails", "connectFalse", "wsFails"}

\* The answer to the second getVM, by the members the extraction looks at
\* ("absent": no such member, or not a string); it has no "targetModel".
VmInfos ==
    [name : {"absent", "", "Unknown", "Bookfy"},
     _name : {"absent", "", "Unknown", "Bookfy"},
     operatingSystemVersion : {"absent", "Linux 6.1", "Darwin 23", "Fuchsia"}]
NoInfo == [name |-> "absent", _name |-> "absent", operatingSystemVersion |-> "absent"]

\* L294-321: extractProjectName.
ExtractProjectName(vm_info) ==
    IF vm_info.name \notin {"absent", "", "Unknown"}
    THEN vm_info.name
    ELSE IF vm_info._name \notin {"absent", "", "Unknown"}
         THEN vm_info._name
         ELSE "Unknown"

\* L323-351: extractDeviceType.
ExtractDeviceType(vm_info) ==
    CASE vm_info.operatingSystemVersion = "Linux 6.1" -> "Linux"
      [] vm_info.operatingSystemVersion = "Darwin 23" -> "macOS"
      [] OTHER -> "Unknown"

\* L95-125: the FlutterInstance of a validated service. device is set to
\* "Unknown" at L101; project_name is a default-constructed string until the
\* follow-up assigns it (L109) or its catch block does (L120).
Identify(fu, vm_info) ==
    CASE fu = "answered" ->
             [outcome |-> "value",
              project_name |-> ExtractProjectName(vm_info),
              device |-> ExtractDeviceType(vm_info)]
      [] fu = "queryFails" ->
             [outcome |-> "value", project_name |-> "Unknown", device |-> "Unknown"]
      [] OTHER ->
             [outcome |-> "value", project_name |-> "", device |-> "Unknown"]

\* L72-131: what probePort returns.
ProbeResult(kind) == IF kind = "valid" THEN "instance" ELSE "nullopt"

\* Faulty variant of HasValue: every future's result is pushed.
HasValueAlways(r) == TRUE

\* L51: if (result)
HasValue(r) == r = "instance"

\* Faulty variant of SortByPort: the comparison of L64 is reversed.
RECURSIVE SortDescending(_)
SortDescending(q) ==
    IF q = <<>> THEN <<>>
    ELSE LET m == CHOOSE i \in 1..Len(q) : \A j \in 1..Len(q) : q[j] <= q[i]
         IN  <<q[m]>> \o SortDescending(SubSeq(q, 1, m - 1) \o SubSeq(q, m + 1, Len(q)))

\* L62-65: std::sort by port, ascending.
RECURSIVE SortByPort(_)
SortByPort(q) ==
    IF q = <<>> THEN <<>>
    ELSE LET m == CHOOSE i \in 1..Len(q) : \A j \in 1..Len(q) : q[i] <= q[j]
         IN  <<q[m]>> \o SortByPort(SubSeq(q, 1, m - 1) \o SubSeq(q, m + 1, Len(q)))

\* L31-44: discoverInstances starts one std::async task per port.
DiscoverStart ==
    /\ scan = "idle"
    /\ scan' = "collect"
    /\ probe' = [p \in Candidates |-> "running"]
    /\ port_num' = port_range_start
    /\ instances' = <<>>
    /\ UNCHANGED <<service, out_of_order, found, instance>>
    /\ UNCHANGED <<client, pc, reqid, inConnect, outcome, hist, sink, server, msgs, slot>>

\* L72-93: the task of port p blocks in a wait that has a deadline: the
\* recv of httpGet, the wait loop of connect() (vm_service_client.cpp
\* L62-65) or the wait_for of sendRequest.
ProbeWait(p) ==
    /\ scan = "collect"
    /\ probe[p] = "running"
    /\ probe' = [probe EXCEPT ![p] = "waiting"]
    /\ UNCHANGED <<scan, service, port_num, instances, out_of_order,
                   found, instance>>
    /\ UNCHANGED <<client, pc, reqid, inConnect, outcome, hist, sink, server, msgs, slot>>

\* L40-42, L72-131: the task of port p runs probePort to its end, finding
\* kind on the port. The tasks end in any order.
ProbePort(p, kind) ==
    /\ scan = "collect"
    /\ probe[p] \in {"running", "waiting"}
    /\ service' = [service EXCEPT ![p] = kind]
    /\ out_of_order' = (out_of_order \/ \E q \in Candidates :
                                         q < p /\ probe[q] \in {"running", "waiting"})
    /\ IF Terminates(kind)
       THEN /\ scan' = "terminated"
            /\ UNCHANGED probe
       ELSE /\ probe' = [probe EXCEPT ![p] = ProbeResult(kind)]
            /\ UNCHANGED scan
    /\ UNCHANGED <<port_num, instances, found, instance>>
    /\ UNCHANGED <<client, pc, reqid, inConnect, outcome, hist, sink, server, msgs, slot>>

\* L47-59: the loop over the futures, in the order of the ports;
\* future.get() waits for the task.
Collect ==
    /\ scan = "collect"
    /\ port_num <= port_range_end
    /\ probe[port_num] \notin {"running", "waiting"}
    /\ instances' = IF HasValue(probe[port_num])
                    THEN Append(instances, port_num)
                    ELSE instances
    /\ port_num' = port_num + 1
    /\ UNCHANGED <<scan, service, probe, out_of_order, found, instance>>
    /\ UNCHANGED <<client, pc, reqid, inConnect, outcome, hist, sink, server, msgs, slot>>

\* L61-69: the sort, and the return.
SortAndReturn ==
    /\ scan = "collect"
    /\ port_num > port_range_end
    /\ instances' = SortByPort(instances)
    /\ scan' = "returned"
    /\ UNCHANGED <<service, probe, port_num, out_of_order, found, instance>>
    /\ UNCHANGED <<client, pc, reqid, inConnect, outcome, hist, sink, server, msgs, slot>>

\* The service that listens on the port of the probe taken alone: its kind
\* and, for a validated one, the follow-up and the answer to its getVM.
Serve(f) ==
    /\ found = {}
    /\ f.kind = "valid" <=> f.fu # "none"
    /\ f.fu = "answered" \/ f.vm_info = NoInfo
    /\ found' = {f}
    /\ UNCHANGED <<scan, service, probe, port_num, instances, out_of_order, instance>>
    /\ UNCHANGED <<client, pc, reqid, inConnect, outcome, hist, sink, server, msgs, slot>>

\* L72-131: probePort from its first line to its return.
Probe ==
    /\ instance = NoInstance("none")
    /\ \E f \in found :
           instance' = IF Terminates(f.kind) \/ Terminates(f.fu)
                       THEN NoInstance("terminated")
                       ELSE IF ProbeResult(f.kind) = "nullopt"
                            THEN NoInstance("nullopt")
                            ELSE Identify(f.fu, f.vm_info)
    /\ UNCHANGED <<scan, service, probe, port_num, instances, out_of_order, found>>
    /\ UNCHANGED <<client, pc, reqid, inConnect, outcome, hist, sink, server, msgs, slot>>

NextProbe ==
    \/ \E f \in [kind : ServiceKinds, fu : FollowUps \cup {"none"},
                  vm_info : VmInfos] : Serve(f)
    \/ Probe

SpecProbe == Init /\ [][NextProbe]_vars

NextDiscover ==
    \/ DiscoverStart
    \/ \E p \in Candidates : ProbeWait(p)
    \/ \E p \in Candidates : \E kind \in ServiceKinds : ProbePort(p, kind)
    \/ Collect
    \/ SortAndReturn

SpecDiscover == Init /\ [][NextDiscover]_vars

\* ==================================================================
\* Part 5: the connection slot of the tools (src/src/tools/connect_tool.cpp)
\* ==================================================================
\* The tools run on the one thread of the server, so between two of their
\* invocations every call they made on the client has returned. The client
\* is seen call by call: st is the client c, the set of open connections
\* and the client calls made so far by the invocation under way.

\* vm_service_client.cpp L7-9: a new client.
NewClient ==
    [connected_ |-> FALSE, running_ |-> FALSE, ws_thread_ |-> "none",
     ws_uri_ |-> "", terminated |-> FALSE]

\* How a connect() that gets past L16-19 goes:
\*   ok         : the handshake succeeds and getMainIsolateId returns
\*   badUri     : get_connection reports an error (L53-56)
\*   fails      : the handshake fails, the event loop ends, and disconnect()
\*                at L69 returns early
\*   timeout    : no handshake after 5 seconds, the event loop still runs
\*   queryFails : getMainIsolateId throws (L74, L79-83)
ConnectOutcomes == {"ok", "badUri", "fails", "timeout", "queryFails"}

\* Faulty variant of Disconnected: disconnect() always returns early.
DisconnectedEarly(st) == [st EXCEPT !.calls = Append(@, "disconnect")]

\* vm_service_client.cpp L86-130: disconnect() from its call to its return.
Disconnected(st) ==
    IF ~st.c.connected_ /\ ~st.c.running_
    THEN [st EXCEPT !.calls = Append(@, "disconnect")]
    ELSE [c |-> [st.c EXCEPT !.connected_ = FALSE, !.running_ = FALSE,
                             !.ws_thread_ = "none"],
          opened |-> st.opened \ {st.c.ws_uri_},
          calls |-> Append(st.calls, "disconnect")]

\* vm_service_client.cpp L15-84: connect(uri) from its call to its return.
\* Assigning ws_thread_ (L58) while it holds a joinable thread calls
\* std::terminate.
Connected(st, uri, how) ==
    LET c == st.c
        after ==
            IF c.connected_ THEN c
            ELSE IF how = "badUri" THEN [c EXCEPT !.ws_uri_ = uri]
            ELSE IF c.ws_thread_ # "none"
                 THEN [c EXCEPT !.ws_uri_ = uri, !.running_ = TRUE,
                                !.terminated = TRUE]
            ELSE CASE how = "ok" ->
                          [c EXCEPT !.ws_uri_ = uri, !.connected_ = TRUE,
                                    !.running_ = TRUE, !.ws_thread_ = "running"]
                   [] how = "fails" ->
                          [c EXCEPT !.ws_uri_ = uri, !.ws_thread_ = "exited"]
                   [] OTHER -> [c EXCEPT !.ws_uri_ = uri]
    IN  [c |-> after,
         opened |-> IF after.connected_ /\ ~c.connected_
                    THEN st.opened \cup {uri}
                    ELSE st.opened,
         calls |-> Append(st.calls, "connect")]

\* connect_tool.cpp L167-170 and L345-348: the client the slot holds, made
\* by this invocation if the slot was null.
Slot == IF g_vm_client = {} THEN NewClient ELSE CHOOSE c \in g_vm_client : TRUE

\* connect_tool.cpp L340-361: ensureConnection(uri).
EnsureConnection(uri, how) ==
    /\ \A c \in g_vm_client : ~c.terminated
    /\ LET st0 == [c |-> Slot, opened |-> opened, calls |-> <<>>]
           same == uri = "" \/ (Slot.connected_ /\ Slot.ws_uri_ = uri)
           st1 == IF Slot.connected_ THEN Disconnected(st0) ELSE st0
           st2 == IF same THEN st0 ELSE Connected(st1, uri, how)
       IN  /\ g_vm_client' = IF uri = "" THEN g_vm_client ELSE {st2.c}
           /\ made' = IF uri # "" /\ g_vm_client = {} THEN made + 1 ELSE made
           /\ opened' = st2.opened
           /\ last_call' =
                  [op |-> "ensureConnection", uri |-> uri,
                   held |-> IF g_vm_client # {} /\ Slot.connected_
                            THEN Slot.ws_uri_ ELSE "",
                   calls |-> st2.calls,
                   ret |-> IF uri = ""
                           THEN g_vm_client # {} /\ Slot.connected_
                           ELSE st2.c.connected_ /\ ~st2.c.terminated]
    /\ UNCHANGED <<client, pc, reqid, inConnect, outcome, hist, sink, server,
                   msgs, disc, ws_uri_, request>>

\* connect_tool.cpp L87-251: ConnectTool::execute with the URI to connect
\* to (given, or discovered at L92-163). query: the getVM and getIsolate
\* queries of L185-186 and L211-222 succeed. ret: a success response.
ConnectToolExecute(uri, how, query) ==
    /\ \A c \in g_vm_client : ~c.terminated
    /\ LET st0 == [c |-> Slot, opened |-> opened, calls |-> <<>>]
           same == Slot.connected_ /\ Slot.ws_uri_ = uri
           already == same /\ query
           st1 == IF Slot.connected_ THEN Disconnected(st0) ELSE st0
           st2 == IF already THEN st0 ELSE Connected(st1, uri, how)
       IN  /\ g_vm_client' = {st2.c}
           /\ made' = IF g_vm_client = {} THEN made + 1 ELSE made
           /\ opened' = st2.opened
           /\ last_call' =
                  [op |-> "connect", uri |-> uri,
                   held |-> IF Slot.connected_ THEN Slot.ws_uri_ ELSE "",
                   calls |-> st2.calls,
                   ret |-> st2.c.connected_ /\ ~st2.c.terminated /\ query]
    /\ UNCHANGED <<client, pc, reqid, inConnect, outcome, hist, sink, server,
                   msgs, disc, ws_uri_, request>>

\* connect_tool.cpp L278-305: DisconnectTool::execute.
DisconnectToolExecute ==
    /\ \A c \in g_vm_client : ~c.terminated
    /\ LET st0 == [c |-> Slot, opened |-> opened, calls |-> <<>>]
           can == g_vm_client # {} /\ Slot.connected_
           st1 == IF can THEN Disconnected(st0) ELSE st0
       IN  /\ g_vm_client' = IF can THEN {st1.c} ELSE g_vm_client
           /\ opened' = st1.opened
           /\ last_call' =
                  [op |-> "disconnect", uri |-> "",
                   held |-> IF can THEN Slot.ws_uri_ ELSE "",
                   calls |-> st1.calls, ret |-> can]
    /\ UNCHANGED <<client, pc, reqid, inConnect, outcome, hist, sink, server,
                   msgs, disc, ws_uri_, made, request>>

\* vm_service_client.cpp L325-328 and L269-280: the peer closes the
\* connection: onClose clears connected_; then, or at once (ended),
\* ws_client_.run() returns, running_ is cleared and the thread ends.
RemoteClose(ended) ==
    /\ \E c \in g_vm_client :
           /\ ~c.terminated
           /\ c.ws_thread_ = "running"
           /\ c.connected_ \/ ended
           /\ g_vm_client' =
                  {IF ended
                   THEN [c EXCEPT !.connected_ = FALSE, !.running_ = FALSE,
                                  !.ws_thread_ = "exited"]
                   ELSE [c EXCEPT !.connected_ = FALSE]}
           /\ opened' = opened \ {c.ws_uri_}
    /\ UNCHANGED <<client, pc, reqid, inConnect, outcome, hist, sink, server,
                   msgs, disc, ws_uri_, made, last_call, request>>

NextSlot ==
    \/ \E uri \in Uris \cup {""} : \E how \in ConnectOutcomes :
           EnsureConnection(uri, how)
    \/ \E uri \in Uris : \E how \in ConnectOutcomes : \E query \in BOOLEAN :
           ConnectToolExecute(uri, how, query)
    \/ DisconnectToolExecute
    \/ \E ended \in BOOLEAN : RemoteClose(ended)

SpecSlot == Init /\ [][NextSlot]_vars

\* ==================================================================
\* Properties of the dispatch engine (Server, MessageHandler)
\* ==================================================================
\* The frame parses to a Request: it has a string or integer id.
IsRequest(f) == ~ParseThrows(f) /\ HasId(FromJson(f))

\* The requests the server may be sent, each with what a tool may do.
Requests == {f \in ServerFrames : IsRequest(f)}

\* The reply is an error response to the request f with this code and
\* message, and no data.
ErrorReply(r, f, code, message) ==
    r = {[result |-> {},
          error |-> {[code |-> code, message |-> message, data |-> {}]},
          id |-> f.id]}

\* ------------------------------------------------------------------ C14
AllowList == {"initialize", "ping"}
StandardCodes == {ParseError, InvalidRequest, MethodNotFound, InvalidParams, InternalError}

\* An error that tells the caller the handshake is missing: a code of its
\* own, or at least the text.
IsNotInitialized(e) == e.code \notin StandardCodes \/ e.message = "Server not initialized"

C15_SecondInitializeFails ==
    [][\A f \in Requests :
           (ProcessMessage(f, "returns") /\ initialized_ /\ f.method = "initialize") =>
               /\ initialized_'
               /\ ErrorReply(reply', f, InternalError, "Server already initialized")]_vars

\* The second initialize was refused.
C15_Witness ==
    /\ initialized_
    /\ invoked = <<"handleInitialize">>
    /\ \E r \in reply : \E e \in r.error : e.message = "Server already initialized"

\* ------------------------------------------------------------------ C16
\* The frames that invoke initialize, as a request or as a notification.
InitializeFrames == {f \in ServerFrames : ~ParseThrows(f) /\ f.method = "initialize"}

\* C16: initialized_ never goes back to false; it becomes true only in a
\* step that processes an initialize frame whose handler returned (a
\* request then gets a result); an initialize that is answered with an
\* error leaves it as it was; frames that do not parse, all other methods,
\* tool calls, start, stop and the end of input do not change it.
C16_Step ==
    /\ initialized_ => initialized_'
    /\ initialized_' # initialized_ =>
           \E f \in InitializeFrames :
               /\ ProcessMessage(f, "returns")
               /\ ~handleInitialize(FromJson(f).params).threw
               /\ IsRequest(f) => \E r \in reply' : r.result # {} /\ r.error = {}
    /\ \A f \in InitializeFrames :
           (ProcessMessage(f, "returns") /\ \E r \in reply' : r.error # {}) =>
               initialized_' = initialized_

\* C16: the handshake state moves from Uninitialized to Initialized at most
\* once, only by a successful initialize, and never back.
C16_HandshakeOnce == [][C16_Step]_vars

\* An initialize with a malformed clientInfo failed and left the server
\* uninitialized.
C16_Witness ==
    /\ ~initialized_
    /\ invoked = <<"handleInitialize">>
    /\ \E r \in reply : \E e \in r.error : e.message = "json exception"

\* ------------------------------------------------------------------ C17
\* C17: a ping request gets a result response with the request's id and no
\* error, whether or not the server is initialized, and leaves the
\* handshake state alone.
C17_PingAlways ==
    [][\A f \in Requests :
           (ProcessMessage(f, "returns") /\ f.method = "ping") =>
               /\ reply' = {[result |-> {[kind |-> "object", tools |-> {}]},
                             error |-> {}, id |-> f.id]}
               /\ initialized_' = initialized_]_vars

\* A ping was answered before initialize.
C17_Witness ==
    /\ ~initialized_
    /\ invoked = <<"handlePing">>
    /\ \E r \in reply : r.result # {} /\ r.error = {}

\* ------------------------------------------------------------------ C18
\* C18: a request for a method that is not registered gets an error
\* response with the code MethodNotFound and the id of the request, string
\* or integer; no handler runs and the server is unchanged.
C18_MethodNotFound ==
    [][\A f \in Requests :
           (ProcessMessage(f, "returns") /\ ~HasMethod(f.method)) =>
               /\ \E r \in reply' :
                      /\ r.result = {}
                      /\ \E e \in r.error : e.code = MethodNotFound
                      /\ r.id = f.id
               /\ invoked' = <<>>
               /\ UNCHANGED <<initialized_, client_info_, methods_, tools_>>]_vars

\* A request with a string id for an unregistered method was answered.
C18_Witness ==
    /\ invoked = <<>>
    /\ \E r \in reply :
           /\ r.id.t = "string"
           /\ \E e \in r.error : e.code = MethodNotFound

\* ------------------------------------------------------------------ C19
\* C19: when the handler of a request's method returns r, the response has
\* the result r, no error, and the id of the request.
C19_ResultResponse ==
    [][\A f \in Requests : \A o \in OutcomesOf(f) :
           LET out == Call(methods_[f.method], FromJson(f).params, o)
           IN  (ProcessMessage(f, o) /\ HasMethod(f.method) /\ ~out.threw) =>
                   reply' = {[result |-> {out.result}, error |-> {}, id |-> f.id]}]_vars

\* A tools/call request with a string id got the tool's result.
C19_Witness ==
    \E r \in reply :
        /\ r.result = {[kind |-> "content", tools |-> {"tap"}]}
        /\ r.error = {}
        /\ r.id.t = "string"

\* ------------------------------------------------------------------ C20
\* C20 as stated: when the handler of a request throws, the response is an
\* InternalError with the id of the request whose data is the message of
\* the exception.
C20_FailureAsData ==
    [][\A f \in Requests : \A o \in OutcomesOf(f) :
           LET out == Call(methods_[f.method], FromJson(f).params, o)
           IN  (ProcessMessage(f, o) /\ HasMethod(f.method) /\ out.threw) =>
                   \E r \in reply' :
                       /\ r.id = f.id
                       /\ \E e \in r.error :
                              e.code = InternalError /\ e.data = {out.what}]_vars

\* C20 (amended): when the handler of a request throws, the response is an
\* InternalError with the id of the request whose message is the message of
\* the exception (the text "Internal error" when that is empty), without
\* data; the exception does not leave handleMessage, and the server goes on
\* receiving frames.
C20_FailureAsMessage ==
    [][\A f \in Requests : \A o \in OutcomesOf(f) :
           LET out == Call(methods_[f.method], FromJson(f).params, o)
           IN  (ProcessMessage(f, o) /\ HasMethod(f.method) /\ out.threw) =>
                   /\ ErrorReply(reply', f, InternalError,
                                 IF out.what = "" THEN "Internal error" ELSE out.what)
                   /\ UNCHANGED <<server_running_, ready_, methods_, tools_>>]_vars

\* A tool threw, and the request was answered with its message.
C20_Witness ==
    \E r \in reply : \E e \in r.error :
        e.code = InternalError /\ e.message = "tool failed"

\* ------------------------------------------------------------------ C21
\* The frames whose parse fails: text that is not JSON, or JSON that the
\* validation or fromJson rejects.
Unparseable == {f \in ServerFrames : ParseThrows(f)}

\* C21: a frame that fails to parse is answered with a ParseError response
\* with a null id; no handler runs, and the registry, the tools and the
\* handshake state are unchanged.
C21_ParseErrorNullId ==
    [][\A f \in Unparseable :
           ProcessMessage(f, "returns") =>
               /\ \E r \in reply' :
                      /\ reply' = {r}
                      /\ r.result = {}
                      /\ r.id = [t |-> "null", v |-> 0]
                      /\ \E e \in r.error : e.code = ParseError
               /\ invoked' = <<>>
               /\ UNCHANGED <<methods_, tools_, initialized_, client_info_>>]_vars

\* An initialized server answered a frame that does not parse.
C21_Witness ==
    /\ initialized_
    /\ invoked = <<>>
    /\ \E r \in reply :
           r.id.t = "null" /\ \E e \in r.error : e.code = ParseError

\* ------------------------------------------------------------------ C22
\* The frames that parse to a notification: the id is absent or null.
Notifications == {f \in ServerFrames : ~ParseThrows(f) /\ f.id.t \in {"absent", "null"}}

\* C22: a notification never gets a reply. When its method is registered
\* the handler runs once, and an exception of the handler is swallowed
\* (the server keeps receiving); when it is not registered nothing runs and
\* the server is unchanged.
C22_NotificationNoReply ==
    [][\A f \in Notifications : \A o \in OutcomesOf(f) :
           ProcessMessage(f, o) =>
               /\ reply' = {}
               /\ UNCHANGED <<server_running_, ready_, methods_, tools_>>
               /\ IF HasMethod(f.method)
                  THEN invoked' = <<methods_[f.method]>>
                  ELSE /\ invoked' = <<>>
                       /\ UNCHANGED <<initialized_, client_info_>>]_vars

\* A tools/call notification ran its handler before initialize: the handler
\* threw, and there is no reply.
C22_Witness ==
    /\ ~initialized_
    /\ invoked = <<"handleToolsCall">>
    /\ reply = {}

\* ------------------------------------------------------------------ C23
\* C23: every response the server sends has a result or an error, never
\* both and never neither.
C23_ResultXorError ==
    \A r \in reply : (r.result = {}) # (r.error = {})

\* A tools/list request was answered with the registered tools.
C23_Witness ==
    \E r \in reply :
        /\ r.result = {[kind |-> "tools", tools |-> {"tap"}]}
        /\ r.error = {}

\* ------------------------------------------------------------------ C26
\* The text is JSON but not a valid envelope: not an object, the version is
\* not "2.0", the method is absent or not a string, the params are neither
\* an object nor an array, or the id is neither a string, an integer nor null.
ViolatesModel(f) ==
    /\ f.json
    /\ \/ ~f.object
       \/ f.jsonrpc # "2.0"
       \/ f.method \in {"absent", "nonstring"}
       \/ f.params.shape \in {"scalar", "null"}
       \/ f.id.t \notin {"absent", "null", "int", "string"}

\* C26 as stated: a text that is not JSON fails with ParseError; a text that
\* is JSON but not a valid envelope fails with the distinct InvalidRequest;
\* neither is accepted.
C26_DistinctInvalidRequest ==
    [][\A f \in ServerFrames :
           (ProcessMessage(f, "returns") /\ (~f.json \/ ViolatesModel(f))) =>
               /\ invoked' = <<>>
               /\ \E r \in reply' : \E e \in r.error :
                      e.code = IF f.json THEN InvalidRequest ELSE ParseError]_vars

\* C26 (amended): a text that is not JSON and a text that is JSON but not a
\* valid envelope fail alike: the one failure of parse, which is reported
\* with the code ParseError and a null id; neither is accepted (no handler
\* runs, nothing changes), and every other text is accepted.
C26_ParseFailsAlike ==
    [][\A f \in ServerFrames :
           ProcessMessage(f, "returns") =>
               IF ~f.json \/ ViolatesModel(f)
               THEN /\ invoked' = <<>>
                    /\ UNCHANGED <<initialized_, client_info_, methods_, tools_>>
                    /\ \E r \in reply' :
                           /\ reply' = {r}
                           /\ r.id.t = "null"
                           /\ \E e \in r.error : e.code = ParseError
               ELSE \A r \in reply' : \A e \in r.error : e.code # ParseError]_vars

\* A request of version 1.0 was refused with the code ParseError.
C26_Witness ==
    \E r \in reply : \E e \in r.error :
        e.code = ParseError /\ e.message = "JSON-RPC version must be '2.0'"

\* ------------------------------------------------------------------ C28
\* C28: a name is registered exactly when the last registry call on it was
\* a register, and then under the handler of that call.
C28_Inv ==
    \A m \in MethodNames :
        /\ HasMethod(m) <=> last_op[m].op = "register"
        /\ HasMethod(m) => methods_[m] = last_op[m].handler

\* A request for a name invokes the handler of the last register of the
\* name, if there is one; handleMessage never changes the registry.
C28_Step ==
    \A f \in RegistryFrames :
        ProcessMessage(f, "returns") =>
            /\ methods_' = methods_
            /\ IsRequest(f) =>
                   invoked' = IF last_op[f.method].op = "register"
                              THEN <<last_op[f.method].handler>>
                              ELSE <<>>

\* C28: has(name) follows the last register or unregister of the name, a
\* request reaches the handler of the most recent register, and dispatch
\* leaves the registry alone.
C28_LastWriterWins == []C28_Inv /\ [][C28_Step]_vars

\* "ping" was registered again with another handler, "foo" was registered
\* and unregistered, and a ping request ran the new handler.
C28_Witness ==
    /\ last_op["ping"] = [op |-> "register", handler |-> "handleToolsList"]
    /\ last_op["foo"].op = "unregister"
    /\ invoked = <<"handleToolsList">>
    /\ \E r \in reply : r.id.t \in {"int", "string"}

\* ==================================================================
\* Properties of the message model
\* ==================================================================
\* ------------------------------------------------------------------ C24
\* The Response has both a result and an error, or neither.
BothOrNeither(v) == (v.result = {}) = (v.error = {})

\* C24: a Response with both result and error, or with neither, cannot be
\* built, and is rejected when it is validated.
C24_ResponseRejected ==
    /\ \A v \in value : IsResponseValue(v) => ~BothOrNeither(v)
    /\ \A v \in value : \A r \in parsed :
           (IsResponseValue(v) /\ BothOrNeither(v)) => r.threw

\* ------------------------------------------------------------------ C25
\* C25: the Request that parse makes of the serialized text of a
\* constructed Request equals that Request, member by member.
C25_RoundTrip ==
    \A v \in value : \A r \in parsed :
        (IsRequestValue(v) /\ r.by = "parse") =>
            /\ ~r.threw
            /\ \A q \in r.req :
                   q.method = v.method /\ q.params = v.params /\ q.id = v.id

\* ------------------------------------------------------------------ C27
\* C27: a parsed message has no id (hasId is false) exactly when the id
\* member of the text is absent or null; a string or integer id is kept
\* with its value, and hasId is true.
C27_NotificationIffNoId ==
    \A f \in text : \A r \in parsed : \A q \in r.req :
        /\ ~HasId(q) <=> f.id.t \in {"absent", "null"}
        /\ f.id.t = "string" => q.id = [t |-> "string", v |-> f.id.v]
        /\ f.id.t = "int" => q.id = [t |-> "int64_t", v |-> f.id.v]
        /\ f.id.t \in {"string", "int"} => HasId(q)

\* A text with a string id was received and parsed.
C27_Witness ==
    /\ value = {}
    /\ \E f \in text : f.id.t = "string"
    /\ \E r \in parsed : \E q \in r.req : HasId(q) /\ q.id.t = "string"

\* ==================================================================
\* Properties of the instance discovery
\* ==================================================================
\* ------------------------------------------------------------------ C29
\* The ports whose probe validated.
Validated == {p \in Candidates : service[p] = "valid"}

\* C29: what discoverInstances returns is the ports whose probe validated,
\* each once, in ascending order; it is a function of what the probes
\* found, not of the order in which they ended.
C29_ValidatedAscending ==
    scan = "returned" =>
        /\ {instances[i] : i \in 1..Len(instances)} = Validated
        /\ Len(instances) = Cardinality(Validated)
        /\ \A i, j \in 1..Len(instances) : i < j => instances[i] < instances[j]

\* Five candidates, of which two validated, two timed out and one gave a
\* malformed result; a probe ended before the probe of a lower port.
C29_Witness ==
    /\ scan = "returned"
    /\ out_of_order
    /\ \A p \in Candidates :
           service[p] = CASE p \in {2, 4} -> "valid"
                          [] p = 3 -> "malformed"
                          [] OTHER -> "timeout"
    /\ instances = <<2, 4>>

\* ------------------------------------------------------------------ C30
\* C30: a probe that finds its port closed, times out, is answered with an
\* error or with a result that lacks "type" or "name" is left out of the
\* result, and no probe makes discoverInstances fail.
C30_ProbeFailuresTolerated ==
    /\ scan # "terminated"
    /\ scan = "returned" =>
           \A i \in 1..Len(instances) : service[instances[i]] \notin FailureKinds

\* ------------------------------------------------------------------ C31
\* C31: the probes run independently: while one probe waits for its
\* deadline, every other probe that has not ended can still run to its end.
C31_NoProbeBlocksAnother ==
    \A p, q \in Candidates :
        (p # q /\ scan # "idle" /\ probe[p] = "waiting" /\ probe[q] = "running")
            => ENABLED (\E kind \in ServiceKinds : ProbePort(q, kind))

\* ------------------------------------------------------------------ C32
\* Metadata a follow-up yields: the name or the device could be extracted.
Usable(f) ==
    /\ f.fu = "answered"
    /\ \/ ExtractProjectName(f.vm_info) # "Unknown"
       \/ ExtractDeviceType(f.vm_info) # "Unknown"

\* C32: a probe whose service validated and whose follow-up yields no
\* usable metadata returns an instance whose project name and device are
\* both "Unknown".
C32_PartialIdentityUnknown ==
    \A f \in found :
        (instance.outcome # "none" /\ f.kind = "valid" /\ ~Usable(f))
            => /\ instance.outcome = "value"
               /\ instance.project_name = "Unknown"
               /\ instance.device = "Unknown"

\* ------------------------------------------------------------------ C34
\* C34: between the owner's calls, getUri returns the empty string whenever
\* the client is not connected.
C34_UriEmptyUnlessConnected ==
    (~crashed /\ pc[Ctl] = "idle" /\ ~connected_) => GetUri = ""

\* ------------------------------------------------------------------ C33
\* C33: the tools keep at most one client and at most one open connection;
\* ensureConnection(u) while connected to u returns true and calls neither
\* disconnect() nor connect(); while connected to another URI it calls
\* disconnect() and then connect(u), after which no connection but the one
\* to u is open.
C33_SingleSlot ==
    /\ made <= 1
    /\ Cardinality(g_vm_client) <= 1
    /\ Cardinality(opened) <= 1
    /\ (last_call.op = "ensureConnection" /\ last_call.uri # ""
            /\ last_call.held = last_call.uri)
           => last_call.calls = <<>> /\ last_call.ret
    /\ (last_call.op = "ensureConnection" /\ last_call.uri # ""
            /\ last_call.held \notin {"", last_call.uri})
           => /\ last_call.calls = <<"disconnect", "connect">>
              /\ opened \subseteq {last_call.uri}

\* ensureConnection replaced the connection to one service by a connection
\* to the other.
C33_Witness ==
    /\ last_call.op = "ensureConnection"
    /\ last_call.held = OwnerUri
    /\ last_call.uri \in Uris \ {OwnerUri}
    /\ last_call.ret
    /\ opened = {last_call.uri}
    /\ made = 1

\* ------------------------------------------------------------------ C35
\* C35: once disconnect() has cleared the table and returned, and until the
\* next connect(), the table holds no entry: no call that passed the
\* connected check registers its promise after the table was cleared.
C35_NoEntryAfterClear ==
    (~crashed /\ pc[Ctl] = "idle" /\ ~connected_ /\ ws_thread_ = "none")
        => pending_requests_ = {}

\* ------------------------------------------------------------------ C36
\* C36: a request dispatched while the registry changes is answered with
\* the result of its handler or with MethodNotFound, never with an
\* InternalError that the lookup of the handler caused.
C36_SnapshotDispatch ==
    \A r \in reply : \A e \in r.error :
        ~(e.code = InternalError /\ e.message = "out_of_range")

C38_Step ==
    \A t \in Threads :
        /\ SendRequestNotConnected(t) =>
               /\ pending_requests_' = pending_requests_
               /\ next_request_id_' = next_request_id_
               /\ pc'[t] = AfterCall(t)
               /\ reqid'[t] = 0
        /\ (SendRequestSend(t) /\ sock # "open") =>
               /\ pending_requests_' = pending_requests_ \ {reqid[t]}
               /\ reqid[t] \notin pending_requests_'
               /\ outcome'[reqid[t]] = "SendFailed"
               /\ pc'[t] = AfterCall(t)

\* C38: a call that fails before it starts waiting raises its error and
\* leaves no entry of its own in the table, and the entries of the other
\* calls stay.
C38_FailsBeforeWaiting == [][C38_Step]_vars

\* The send of call 1 failed while call 2 is registered: only the entry of
\* call 2 is in the table.
C38_Witness ==
    /\ outcome[1] = "SendFailed"
    /\ pending_requests_ = {2}
    /\ promise[2] = "unset"

\* ------------------------------------------------------------------ C39
\* The initialize frames without an id, or with a null id.
InitializeNotifications == {f \in InitializeFrames : f.id.t \in {"absent", "null"}}

\* An initialize notification whose handler returns makes the server
\* initialized and gets no reply; the initialize request that comes right
\* after an initialize notification is refused.
C39_Step ==
    /\ \A f \in InitializeNotifications :
           (/\ ProcessMessage(f, "returns")
            /\ ~initialized_
            /\ ~handleInitialize(FromJson(f).params).threw) =>
               /\ initialized_'
               /\ reply' = {}
               /\ invoked' = <<"handleInitialize">>
    /\ \A f \in InitializeFrames :
           (/\ ProcessMessage(f, "returns")
            /\ IsRequest(f)
            /\ initialized_ /\ reply = {} /\ invoked = <<"handleInitialize">>) =>
               /\ ErrorReply(reply', f, InternalError, "Server already initialized")
               /\ initialized_'

\* C39: an initialize sent as a notification runs the handler like a
\* request: the server becomes initialized without a reply, and a later
\* initialize request fails as already initialized.
C39_NotificationInitializes == [][C39_Step]_vars

\* The server was started, and the last frame it handled was an initialize
\* notification: it is initialized, and nothing was written.
C39_Witness ==
    /\ server_running_
    /\ initialized_
    /\ reply = {}
    /\ invoked = <<"handleInitialize">>


\* The line e of received is answered: it does not parse, or it is a
\* Request with an id that is not null.
Answered(e) == ~e.parses \/ e.id.t \notin {"absent", "null"}

\* The id member of the one frame that answers e: null for a line that does
\* not parse, else the id of the Request.
AnswerId(e) == IF e.parses THEN e.id ELSE [t |-> "null", v |-> 0]

====
